---- MODULE Spec2Model ----
(***************************************************************************)
(* The article repository of tech-news-site (class MemStorage) and the      *)
(* route handlers that drive it (registerRoutes), both in server/routes.ts. *)
(*                                                                          *)
(* Strings are sequences of one-character strings, so that toLowerCase,     *)
(* String.prototype.includes and the `${title}||${url}` key of              *)
(* removeDuplicates are computed, not assumed.  The Map of the store is a   *)
(* sequence of articles in insertion order (a JavaScript Map iterates in    *)
(* insertion order, and Map.set on a present key keeps its position).       *)
(***************************************************************************)
EXTENDS Integers, Sequences, FiniteSets, TLC

VARIABLES
    articles,   \* MemStorage.articles: the stored articles, in insertion order
    uuidCount,  \* how many identifiers randomUUID has handed out so far
    issued,     \* history: every id an article was ever stored under
    now,        \* the wall clock, in days
    ret,        \* the last storage call: its name, arguments and return value
    req,        \* the request each handler is serving, and how far it is
    evicted,    \* history: id, title and url of what clearOldArticles removed
    keys,       \* the keys of the Map MemStorage.articles, entry by entry
    home        \* the state of the client's Home component

vars == <<articles, uuidCount, issued, now, ret, req, evicted, keys, home>>

(***************************************************************************)
(* Bounds of the model.                                                     *)
(***************************************************************************)
MaxIds == 2      \* identifiers randomUUID may hand out in one run
MaxViews == 2    \* views the stored articles may collect together
MaxLimit == 2    \* largest page size asked for
MaxOffset == 1   \* largest offset asked for
MaxBatch == 1    \* records one fetchNewsFromAPI call may return
PageSize == 1    \* the page size of the client, 20 in home.tsx

(***************************************************************************)
(* Strings.                                                                 *)
(***************************************************************************)
UpperCase == <<"A","B","C","D","E","F","G","H","I","J","K","L","M",
               "N","O","P","Q","R","S","T","U","V","W","X","Y","Z">>
LowerCase == <<"a","b","c","d","e","f","g","h","i","j","k","l","m",
               "n","o","p","q","r","s","t","u","v","w","x","y","z">>

\* The characters strings are made of
Chars == { UpperCase[i] : i \in 1..Len(UpperCase) }
             \cup { LowerCase[i] : i \in 1..Len(LowerCase) }
             \cup {"|", " ", "-", ".", "/", ":", ",", "%", "9", "<", ">"}

\* String.prototype.toLowerCase, one character
LowerChar ==
    [c \in Chars |->
        IF \E i \in 1..Len(UpperCase) : UpperCase[i] = c
        THEN LowerCase[CHOOSE i \in 1..Len(UpperCase) : UpperCase[i] = c]
        ELSE c]

\* String.prototype.toLowerCase
toLowerCase(s) == [i \in 1..Len(s) |-> LowerChar[s[i]]]

\* String.prototype.includes: t occurs in s as a contiguous substring
includes(s, t) ==
    \E i \in 0..(Len(s) - Len(t)) : SubSeq(s, i + 1, i + Len(t)) = t

\* null (a description or source id that is absent); no string equals it
Null == <<"<null>">>

\* undefined (the value of Map.get and Array.find when nothing is found)
Undefined == [undefined |-> TRUE]

(***************************************************************************)
(* The data the model runs on.                                              *)
(***************************************************************************)
\* newsCategories, cut to the wildcard and two categories that share the
\* keyword "neural"
newsCategories == {"all", "ai", "bci"}

T_Neural == <<"N","e","u","r","a","l">>
T_NeuralBar == <<"N","e","u","r","a","l","|","|","a">>
T_Chip == <<"C","h","i","p">>
U_ab == <<"a","|","|","b">>
U_b == <<"b">>
D_Brain == <<"B","r","a","i","n">>
D_Model == <<"M","o","d","e","l">>
S_Wired == <<"W","i","r","e","d">>
S_Nature == <<"N","a","t","u","r","e">>

\* publishedAt strings, and the day each one denotes
PublishedAts == {"2026-01-01", "2026-01-02", "2026-01-05"}

\* new Date(publishedAt).getTime(), in days
getTime(publishedAt) ==
    CASE publishedAt = "2026-01-01" -> 1
      [] publishedAt = "2026-01-02" -> 2
      [] publishedAt = "2026-01-05" -> 5

\* Raw records as the News API (or getSampleNews) returns them.  Feed[1] and
\* Feed[2] share (title, url) and differ in description and publishedAt;
\* Feed[3] is another (title, url) whose `${title}||${url}` equals Feed[1]'s;
\* Feed[1] and Feed[3] are published at the same instant; Feed[2] is older
\* than three days and Feed[4] exactly three days old.
Feed == <<
    [title |-> T_Neural, description |-> Null, url |-> U_ab,
     publishedAt |-> "2026-01-05", source |-> [name |-> S_Wired]],
    [title |-> T_Neural, description |-> D_Brain, url |-> U_ab,
     publishedAt |-> "2026-01-01", source |-> [name |-> S_Wired]],
    [title |-> T_NeuralBar, description |-> Null, url |-> U_b,
     publishedAt |-> "2026-01-05", source |-> [name |-> S_Nature]],
    [title |-> T_Chip, description |-> D_Model, url |-> U_b,
     publishedAt |-> "2026-01-02", source |-> [name |-> S_Nature]] >>

\* x || fallback, for a string x that may be null or empty
orElse(x, fallback) == IF x = Null \/ x = <<>> THEN fallback ELSE x

Untitled == <<"U","n","t","i","t","l","e","d">>
UnknownSource == <<"U","n","k","n","o","w","n"," ","S","o","u","r","c","e">>

\* mapNewsAPIToSchema(article, category)
mapNewsAPIToSchema(article, category) ==
    [title |-> orElse(article.title, Untitled),
     description |-> orElse(article.description, Null),
     url |-> article.url,
     publishedAt |-> article.publishedAt,
     source |-> [name |-> orElse(article.source.name, UnknownSource)],
     category |-> category]

\* The InsertNewsArticle values handed to createArticle
InsertArticles ==
    { mapNewsAPIToSchema(Feed[i], c) : i \in 1..Len(Feed), c \in newsCategories }

\* Search terms: one hits titles only, one descriptions only, one source
\* names only, one nothing but a url
Queries == { <<"n","e","u","r","a","l">>, <<"B","R","A","I","N">>,
             <<"n","a","t","u","r","e">>, <<"a","|","|","b">> }

(***************************************************************************)
(* Arrays.                                                                  *)
(***************************************************************************)
\* slice that takes the element at end along
slice_Inclusive(s, start, end) ==
    SubSeq(s, start + 1, IF end + 1 < Len(s) THEN end + 1 ELSE Len(s))

\* Array.prototype.slice(start, end) for 0 <= start <= end
slice(s, start, end) ==
    SubSeq(s, start + 1, IF end < Len(s) THEN end ELSE Len(s))

\* The comparator of getArticles and searchArticles:
\* new Date(b.publishedAt).getTime() - new Date(a.publishedAt).getTime()
byPublishDate(a, b) == getTime(b.publishedAt) - getTime(a.publishedAt)

\* sortInsert of an unstable sort: x goes in front of the elements the
\* comparator calls equal to it
RECURSIVE sortInsert_Unstable(_, _)
sortInsert_Unstable(sorted, x) ==
    IF sorted = <<>> THEN <<x>>
    ELSE IF byPublishDate(Head(sorted), x) < 0
         THEN <<Head(sorted)>> \o sortInsert_Unstable(Tail(sorted), x)
         ELSE <<x>> \o sorted

\* One step of a stable sort: x goes behind every element that the
\* comparator does not put after it
RECURSIVE sortInsert(_, _)
sortInsert(sorted, x) ==
    IF sorted = <<>> THEN <<x>>
    ELSE IF byPublishDate(Head(sorted), x) <= 0
         THEN <<Head(sorted)>> \o sortInsert(Tail(sorted), x)
         ELSE <<x>> \o sorted

\* Array.prototype.sort with byPublishDate (stable since ES2019)
RECURSIVE sortFrom(_, _)
sortFrom(sorted, rest) ==
    IF rest = <<>> THEN sorted
    ELSE sortFrom(sortInsert(sorted, Head(rest)), Tail(rest))

sort(s) == sortFrom(<<>>, s)

(***************************************************************************)
(* MemStorage: what each method returns and what it leaves in the Map.      *)
(***************************************************************************)
\* The category filter of getArticles, searchArticles
filterByCategory(store, category) ==
    IF category # "all"
    THEN SelectSeq(store, LAMBDA article : article.category = category)
    ELSE store

\* MemStorage.getArticles
getArticles(store, category, limit, offset) ==
    slice(sort(filterByCategory(store, category)), offset, offset + limit)

\* getArticlesStore with the sort run on the Map's own values instead of
\* the Array.from copy: the Map is left in publishedAt order
getArticlesStore_SortInPlace(store, category, limit, offset) == sort(store)

\* The Map after getArticles: filter and sort work on the Array.from copy
getArticlesStore(store, category, limit, offset) == store

\* MemStorage.getArticleById: Map.get
getArticleById(store, id) ==
    IF \E i \in 1..Len(store) : store[i].id = id
    THEN store[CHOOSE i \in 1..Len(store) : store[i].id = id]
    ELSE Undefined

\* existingArticle without the check, as the first MemStorage.createArticle
\* had it: nothing is ever found
existingArticle_NoCheck(store, insertArticle) == Undefined

\* existingArticle that takes the category into the comparison: the same
\* story ingested under two categories is stored twice
existingArticle_ByCategory(store, insertArticle) ==
    LET hits == { i \in 1..Len(store) :
                    /\ store[i].title = insertArticle.title
                    /\ store[i].url = insertArticle.url
                    /\ store[i].category = insertArticle.category }
    IN IF hits = {} THEN Undefined
       ELSE store[CHOOSE i \in hits : \A j \in hits : i <= j]

\* existingArticle that compares the url alone: a record is taken for a
\* stored article with another title
existingArticle_ByUrl(store, insertArticle) ==
    LET hits == { i \in 1..Len(store) : store[i].url = insertArticle.url }
    IN IF hits = {} THEN Undefined
       ELSE store[CHOOSE i \in hits : \A j \in hits : i <= j]

\* The existence check of createArticle: Array.find on title and url
existingArticle(store, insertArticle) ==
    LET hits == { i \in 1..Len(store) :
                    /\ store[i].title = insertArticle.title
                    /\ store[i].url = insertArticle.url }
    IN IF hits = {} THEN Undefined
       ELSE store[CHOOSE i \in hits : \A j \in hits : i <= j]

\* randomUUID that hands out the identifier it handed out last
randomUUID_Recycle(count) == IF count > 0 THEN count ELSE 1

\* randomUUID(): an identifier never handed out before
randomUUID(count) == count + 1

\* The article createArticle builds: { ...insertArticle, id, views: 0 }
newArticle(insertArticle, id) ==
    [id |-> id,
     title |-> insertArticle.title,
     description |-> insertArticle.description,
     url |-> insertArticle.url,
     publishedAt |-> insertArticle.publishedAt,
     source |-> insertArticle.source,
     category |-> insertArticle.category,
     views |-> 0]

\* createArticleStore as an upsert: a colliding create overwrites the stored
\* article with { ...insertArticle, id, views: 0 } under the old id
createArticleStore_Upsert(store, count, insertArticle) ==
    IF existingArticle(store, insertArticle) # Undefined
    THEN [i \in 1..Len(store) |->
            IF store[i].id = existingArticle(store, insertArticle).id
            THEN newArticle(insertArticle, store[i].id)
            ELSE store[i]]
    ELSE Append(store, newArticle(insertArticle, randomUUID(count)))

\* createArticleStore with the id read off the Map (its size plus one)
\* instead of randomUUID
createArticleStore_SizeId(store, count, insertArticle) ==
    IF existingArticle(store, insertArticle) # Undefined
    THEN store
    ELSE Append(store, newArticle(insertArticle, Len(store) + 1))

\* The Map after createArticle
createArticleStore(store, count, insertArticle) ==
    IF existingArticle(store, insertArticle) # Undefined
    THEN store
    ELSE Append(store, newArticle(insertArticle, randomUUID(count)))

\* The article createArticle returns
createArticleResult(store, count, insertArticle) ==
    IF existingArticle(store, insertArticle) # Undefined
    THEN existingArticle(store, insertArticle)
    ELSE newArticle(insertArticle, randomUUID(count))

\* updateArticleViewsStore without the lookup by id: every stored article
\* is counted up
updateArticleViewsStore_AllArticles(store, id) ==
    [i \in 1..Len(store) |-> [store[i] EXCEPT !.views = @ + 1]]

\* updateArticleViewsStore that writes back a count read when the article
\* was created: the views of every call but the first are lost
updateArticleViewsStore_LostUpdate(store, id) ==
    [i \in 1..Len(store) |->
        IF store[i].id = id
        THEN [store[i] EXCEPT !.views = 1]
        ELSE store[i]]

\* The Map after updateArticleViews: article.views += 1 on the stored
\* object, then Map.set on its own key
updateArticleViewsStore(store, id) ==
    [i \in 1..Len(store) |->
        IF store[i].id = id
        THEN [store[i] EXCEPT !.views = @ + 1]
        ELSE store[i]]

\* updateArticleViewsResult that falls back to the oldest stored article
\* when the id is not a key of the Map
updateArticleViewsResult_Fallback(store, id) ==
    IF getArticleById(store, id) = Undefined /\ store # <<>>
    THEN store[1]
    ELSE getArticleById(updateArticleViewsStore(store, id), id)

\* The value updateArticleViews returns
updateArticleViewsResult(store, id) ==
    getArticleById(updateArticleViewsStore(store, id), id)

\* matchesSearch without toLowerCase on the article's side
matchesSearch_CaseSensitive(article, searchTerm) ==
    \/ includes(article.title, searchTerm)
    \/ /\ article.description # Null
       /\ article.description # <<>>
       /\ includes(article.description, searchTerm)
    \/ includes(article.source.name, searchTerm)

\* The match of searchArticles on title, description and source.name
matchesSearch(article, searchTerm) ==
    \/ includes(toLowerCase(article.title), searchTerm)
    \/ /\ article.description # Null
       /\ article.description # <<>>
       /\ includes(toLowerCase(article.description), searchTerm)
    \/ includes(toLowerCase(article.source.name), searchTerm)

\* MemStorage.searchArticles
searchArticles(store, query, category, limit, offset) ==
    LET searchTerm == toLowerCase(query)
        searchResults ==
            sort(SelectSeq(filterByCategory(store, category),
                           LAMBDA article : matchesSearch(article, searchTerm)))
    IN slice(searchResults, offset, offset + limit)

\* The Map after searchArticles: filter and sort work on the Array.from copy
searchArticlesStore(store, query, category, limit, offset) == store

\* The Map after getTotalArticles: only size and a filtered copy are read
getTotalArticlesStore(store, category) == store

\* A category argument that was left out (the parameter is undefined)
NoCategory == "undefined"

\* getTotalArticles that answers with the size of the Map whatever the
\* category
getTotalArticles_Size(store, category) == Len(store)

\* MemStorage.getTotalArticles
getTotalArticles(store, category) ==
    IF category = NoCategory \/ category = "all"
    THEN Len(store)
    ELSE Len(SelectSeq(store, LAMBDA article : article.category = category))

\* The cutoff of clearOldArticles: setDate(getDate() - 3)
threeDaysAgo(today) == today - 3

\* clearOldArticlesStore with <= for <: an article published exactly three
\* days ago goes too
clearOldArticlesStore_Inclusive(store, today) ==
    SelectSeq(store, LAMBDA article :
                ~(getTime(article.publishedAt) <= threeDaysAgo(today)))

\* The Map after clearOldArticles
clearOldArticlesStore(store, today) ==
    SelectSeq(store, LAMBDA article :
                ~(getTime(article.publishedAt) < threeDaysAgo(today)))

\* The key removeDuplicates derives: `${article.title}||${article.url}`
dedupKey(article) == article.title \o <<"|", "|">> \o article.url

\* removeDuplicatesStore whose loop starts at the second entry of the Map:
\* the first entry is lost on every run
removeDuplicatesStore_SkipFirst(store) ==
    IF store = <<>> THEN store ELSE Tail(store)

\* removeDuplicatesStore that rebuilds the Map under a running index: the
\* articles get the ids 1, 2, ... in place of their own
removeDuplicatesStore_Renumber(store) ==
    [i \in 1..Len(store) |-> [store[i] EXCEPT !.id = i]]

\* The Map after removeDuplicates: the first article of each key, in order
removeDuplicatesStore(store) ==
    LET kept == { i \in 1..Len(store) :
                    \A j \in 1..(i - 1) : dedupKey(store[j]) # dedupKey(store[i]) }
        RECURSIVE build(_)
        build(i) ==
            IF i > Len(store) THEN <<>>
            ELSE IF i \in kept THEN <<store[i]>> \o build(i + 1)
                 ELSE build(i + 1)
    IN build(1)

\* Map.get: the value stored under a key
mapGet(mapKeys, store, id) ==
    IF \E i \in 1..Len(mapKeys) : mapKeys[i] = id
    THEN store[CHOOSE i \in 1..Len(mapKeys) : mapKeys[i] = id]
    ELSE Undefined

\* The keys of the entries a loop over the Map keeps
keptKeys(mapKeys, kept) ==
    LET RECURSIVE build(_)
        build(i) ==
            IF i > Len(mapKeys) THEN <<>>
            ELSE IF i \in kept THEN <<mapKeys[i]>> \o build(i + 1)
                 ELSE build(i + 1)
    IN build(1)

\* The keys after createArticle: this.articles.set(id, article)
createArticleKeys(mapKeys, store, count, insertArticle) ==
    IF existingArticle(store, insertArticle) # Undefined
    THEN mapKeys
    ELSE Append(mapKeys, randomUUID(count))

\* The keys after updateArticleViews: Map.set on a key Map.get found
updateArticleViewsKeys(mapKeys, store, id) == mapKeys

\* The keys after clearOldArticles: Map.delete(id) of the entry [id, article]
clearOldArticlesKeys(mapKeys, store, today) ==
    keptKeys(mapKeys, { i \in 1..Len(store) :
                ~(getTime(store[i].publishedAt) < threeDaysAgo(today)) })

\* removeDuplicatesKeys that sets the entries of the new Map under a running
\* index in place of the key they had
removeDuplicatesKeys_ByPosition(mapKeys, store) ==
    [i \in 1..Len(removeDuplicatesStore(store)) |-> i]

\* The keys after removeDuplicates: uniqueArticles.set(id, article) with the
\* key of the entry [id, article] of the old Map
removeDuplicatesKeys(mapKeys, store) ==
    keptKeys(mapKeys, { i \in 1..Len(store) :
                \A j \in 1..(i - 1) : dedupKey(store[j]) # dedupKey(store[i]) })

(***************************************************************************)
(* The storage calls as steps.  A caller awaits one call at a time: the     *)
(* call runs to its end (no MemStorage method awaits anything), ret holds   *)
(* what it returned, and Resume hands the value to the caller.              *)
(***************************************************************************)
NoCall == [op |-> "none"]

\* The requests in flight at one time
Handlers == {"h1", "h2"}

\* A handler that serves no request
Idle == [route |-> "idle", pc |-> "idle"]

\* The views all stored articles have collected
RECURSIVE sumViews(_)
sumViews(store) ==
    IF store = <<>> THEN 0 ELSE Head(store).views + sumViews(Tail(store))

\* What a call took out of the Map: id, title and url of the articles of
\* before that are not in after
removedBy(before, after) ==
    { [id |-> before[i].id, title |-> before[i].title, url |-> before[i].url] :
        i \in { k \in 1..Len(before) :
                   \A j \in 1..Len(after) : after[j].id # before[k].id } }

\* The client has no load-more request under way
NoMutation == [status |-> "idle"]

\* useQuery holds no data under a query key
NoData == [loaded |-> FALSE]

\* What the client may type into the search box
ClientQueries == { <<>>, <<"n","e","u","r","a","l">> }

\* The query keys of useQuery: ["/api/news", activeCategory, mode, searchQuery]
QueryKeys == newsCategories \X ClientQueries

\* Home as it mounts: the useState initial values and an empty query cache
HomeInit ==
    [activeCategory |-> "all", searchQuery |-> <<>>, isSearchMode |-> FALSE,
     currentOffset |-> 0, allArticles |-> <<>>, hasMoreArticles |-> TRUE,
     cache |-> [k \in QueryKeys |-> NoData],
     loadMoreMutation |-> NoMutation]

Init ==
    /\ home = HomeInit
    /\ articles = <<>>
    /\ uuidCount = 0
    /\ issued = {}
    /\ now = 5
    /\ ret = NoCall
    /\ req = [h \in Handlers |-> Idle]
    /\ evicted = {}
    /\ keys = <<>>

\* await storage.createArticle(insertArticle)
CreateArticle ==
    \E insertArticle \in InsertArticles :
        /\ ret = NoCall
        /\ existingArticle(articles, insertArticle) = Undefined => uuidCount < MaxIds
        /\ articles' = createArticleStore(articles, uuidCount, insertArticle)
        /\ keys' = createArticleKeys(keys, articles, uuidCount, insertArticle)
        /\ uuidCount' = IF existingArticle(articles, insertArticle) = Undefined
                        THEN uuidCount + 1 ELSE uuidCount
        /\ issued' = issued \cup { articles'[i].id : i \in 1..Len(articles') }
        /\ ret' = [op |-> "createArticle", arg |-> insertArticle,
                   val |-> createArticleResult(articles, uuidCount, insertArticle)]
        /\ UNCHANGED <<now, req, evicted, home>>

\* await storage.updateArticleViews(id)
UpdateArticleViews ==
    \E id \in 1..MaxIds :
        /\ ret = NoCall
        /\ getArticleById(articles, id) # Undefined => sumViews(articles) < MaxViews
        /\ articles' = updateArticleViewsStore(articles, id)
        /\ keys' = updateArticleViewsKeys(keys, articles, id)
        /\ ret' = [op |-> "updateArticleViews", arg |-> id,
                   val |-> updateArticleViewsResult(articles, id)]
        /\ UNCHANGED <<uuidCount, issued, now, req, evicted, home>>

\* await storage.getArticles(category, limit, offset)
GetArticles ==
    \E category \in newsCategories, limit \in 1..MaxLimit, offset \in 0..MaxOffset :
        /\ ret = NoCall
        /\ ret' = [op |-> "getArticles",
                   arg |-> [category |-> category, limit |-> limit, offset |-> offset],
                   val |-> getArticles(articles, category, limit, offset)]
        /\ articles' = getArticlesStore(articles, category, limit, offset)
        /\ keys' = keys
        /\ UNCHANGED <<uuidCount, issued, now, req, evicted, home>>

\* await storage.searchArticles(query, category, limit, offset)
SearchArticles ==
    \E query \in Queries, category \in newsCategories,
       limit \in 1..MaxLimit, offset \in 0..MaxOffset :
        /\ ret = NoCall
        /\ ret' = [op |-> "searchArticles",
                   arg |-> [query |-> query, category |-> category,
                            limit |-> limit, offset |-> offset],
                   val |-> searchArticles(articles, query, category, limit, offset)]
        /\ articles' = searchArticlesStore(articles, query, category, limit, offset)
        /\ keys' = keys
        /\ UNCHANGED <<uuidCount, issued, now, req, evicted, home>>

\* await storage.getTotalArticles(category)
GetTotalArticles ==
    \E category \in newsCategories \cup {NoCategory} :
        /\ ret = NoCall
        /\ ret' = [op |-> "getTotalArticles", arg |-> category,
                   val |-> getTotalArticles(articles, category)]
        /\ articles' = getTotalArticlesStore(articles, category)
        /\ keys' = keys
        /\ UNCHANGED <<uuidCount, issued, now, req, evicted, home>>

\* await storage.getArticleById(id)
GetArticleById ==
    \E id \in 1..MaxIds :
        /\ ret = NoCall
        /\ ret' = [op |-> "getArticleById", arg |-> id,
                   val |-> mapGet(keys, articles, id)]
        /\ UNCHANGED <<articles, uuidCount, issued, now, req, evicted, keys, home>>

\* await storage.clearOldArticles()
ClearOldArticles ==
    /\ ret = NoCall
    /\ articles' = clearOldArticlesStore(articles, now)
    /\ keys' = clearOldArticlesKeys(keys, articles, now)
    /\ evicted' = evicted \cup removedBy(articles, articles')
    /\ ret' = [op |-> "clearOldArticles"]
    /\ UNCHANGED <<uuidCount, issued, now, req, home>>

\* await storage.removeDuplicates()
RemoveDuplicates ==
    /\ ret = NoCall
    /\ articles' = removeDuplicatesStore(articles)
    /\ keys' = removeDuplicatesKeys(keys, articles)
    /\ ret' = [op |-> "removeDuplicates"]
    /\ UNCHANGED <<uuidCount, issued, now, req, evicted, home>>

\* The awaiting caller resumes with the returned value
Resume ==
    /\ ret # NoCall
    /\ ret' = NoCall
    /\ UNCHANGED <<articles, uuidCount, issued, now, req, evicted, keys, home>>

Next ==
    \/ CreateArticle
    \/ UpdateArticleViews
    \/ GetArticles
    \/ SearchArticles
    \/ GetTotalArticles
    \/ GetArticleById
    \/ ClearOldArticles
    \/ RemoveDuplicates
    \/ Resume

Spec == Init /\ [][Next]_vars

(***************************************************************************)
(* fetchNewsFromAPI and what it draws on.                                   *)
(***************************************************************************)
\* categoryKeywords of the categories modelled
Keywords_all ==
    << <<"t","e","c","h","n","o","l","o","g","y">>,
       <<"s","c","i","e","n","c","e">>,
       <<"r","e","s","e","a","r","c","h">>,
       <<"i","n","n","o","v","a","t","i","o","n">> >>
Keywords_ai ==
    << <<"a","r","t","i","f","i","c","i","a","l">>,
       <<"i","n","t","e","l","l","i","g","e","n","c","e">>,
       <<"m","a","c","h","i","n","e">>,
       <<"l","e","a","r","n","i","n","g">>,
       <<"n","e","u","r","a","l">>,
       <<"a","l","g","o","r","i","t","h","m">>,
       <<"m","o","d","e","l">>,
       <<"A","I">> >>
Keywords_bci ==
    << <<"b","r","a","i","n">>,
       <<"n","e","u","r","a","l">>,
       <<"n","e","u","r","o","n">>,
       <<"i","n","t","e","r","f","a","c","e">>,
       <<"i","m","p","l","a","n","t">>,
       <<"p","r","o","s","t","h","e","t","i","c">>,
       <<"n","e","u","r","o","t","e","c","h","n","o","l","o","g","y">> >>

categoryKeywords(category) ==
    CASE category = "all" -> Keywords_all
      [] category = "ai" -> Keywords_ai
      [] category = "bci" -> Keywords_bci

Sample_all_title ==
    <<"B","r","e","a","k","t","h","r","o","u","g","h"," ","T","e","c","h",
      "n","o","l","o","g","y"," ","R","e","v","o","l","u","t","i","o","n",
      "i","z","e","s"," ","S","c","i","e","n","t","i","f","i","c"," ","R",
      "e","s","e","a","r","c","h"," ","M","e","t","h","o","d","s">>
Sample_all_description ==
    <<"S","c","i","e","n","t","i","s","t","s"," ","d","e","v","e","l","o",
      "p"," ","i","n","n","o","v","a","t","i","v","e"," ","r","e","s","e",
      "a","r","c","h"," ","t","e","c","h","n","i","q","u","e","s"," ","t",
      "h","a","t"," ","a","c","c","e","l","e","r","a","t","e"," ","d","i",
      "s","c","o","v","e","r","y"," ","i","n"," ","m","u","l","t","i","p",
      "l","e"," ","f","i","e","l","d","s"," ","u","s","i","n","g"," ","a",
      "d","v","a","n","c","e","d"," ","t","e","c","h","n","o","l","o","g",
      "y"," ","p","l","a","t","f","o","r","m","s",".">>
Sample_all_url ==
    <<"h","t","t","p","s",":","/","/","t","e","c","h","c","r","u","n","c",
      "h",".","c","o","m","/">>
Sample_all_source ==
    <<"T","e","c","h","C","r","u","n","c","h">>
Sample_ai_title ==
    <<"N","e","w"," ","A","I"," ","A","l","g","o","r","i","t","h","m"," ",
      "S","o","l","v","e","s"," ","C","o","m","p","l","e","x"," ","M","a",
      "c","h","i","n","e"," ","L","e","a","r","n","i","n","g"," ","O","p",
      "t","i","m","i","z","a","t","i","o","n"," ","P","r","o","b","l","e",
      "m","s">>
Sample_ai_description ==
    <<"B","r","e","a","k","t","h","r","o","u","g","h"," ","a","r","t","i",
      "f","i","c","i","a","l"," ","i","n","t","e","l","l","i","g","e","n",
      "c","e"," ","r","e","s","e","a","r","c","h"," ","s","h","o","w","s",
      " ","n","e","u","r","a","l"," ","n","e","t","w","o","r","k","s"," ",
      "c","a","n"," ","n","o","w"," ","s","o","l","v","e"," ","p","r","e",
      "v","i","o","u","s","l","y"," ","i","n","t","r","a","c","t","a","b",
      "l","e"," ","o","p","t","i","m","i","z","a","t","i","o","n"," ","p",
      "r","o","b","l","e","m","s"," ","i","n"," ","m","a","c","h","i","n",
      "e"," ","l","e","a","r","n","i","n","g",".">>
Sample_ai_url ==
    <<"h","t","t","p","s",":","/","/","t","e","c","h","c","r","u","n","c",
      "h",".","c","o","m","/","a","r","t","i","f","i","c","i","a","l","-",
      "i","n","t","e","l","l","i","g","e","n","c","e","/">>
Sample_ai_source ==
    <<"T","e","c","h","C","r","u","n","c","h">>
Sample_bci_title ==
    <<"B","r","a","i","n","-","C","o","m","p","u","t","e","r"," ","I","n",
      "t","e","r","f","a","c","e"," ","E","n","a","b","l","e","s"," ","P",
      "a","r","a","l","y","z","e","d"," ","P","a","t","i","e","n","t","s",
      " ","t","o"," ","C","o","n","t","r","o","l"," ","N","e","u","r","a",
      "l"," ","P","r","o","s","t","h","e","t","i","c","s">>
Sample_bci_description ==
    <<"R","e","v","o","l","u","t","i","o","n","a","r","y"," ","n","e","u",
      "r","o","t","e","c","h","n","o","l","o","g","y"," ","r","e","s","e",
      "a","r","c","h"," ","a","l","l","o","w","s"," ","b","r","a","i","n",
      " ","i","m","p","l","a","n","t"," ","u","s","e","r","s"," ","t","o",
      " ","c","o","n","t","r","o","l"," ","p","r","o","s","t","h","e","t",
      "i","c"," ","d","e","v","i","c","e","s"," ","u","s","i","n","g"," ",
      "n","e","u","r","a","l"," ","s","i","g","n","a","l","s"," ","f","r",
      "o","m"," ","b","r","a","i","n"," ","i","n","t","e","r","f","a","c",
      "e"," ","s","y","s","t","e","m","s",".">>
Sample_bci_url ==
    <<"h","t","t","p","s",":","/","/","w","w","w",".","n","a","t","u","r",
      "e",".","c","o","m","/","s","u","b","j","e","c","t","s","/","n","e",
      "u","r","o","s","c","i","e","n","c","e">>
Sample_bci_source ==
    <<"N","a","t","u","r","e"," ","N","e","u","r","o","t","e","c","h","n",
      "o","l","o","g","y">>

\* new Date().toISOString()
toISOString(today) == CHOOSE p \in PublishedAts : getTime(p) = today

\* getSampleNews(category), cut to the first record of each list
getSampleNews(category, today) ==
    CASE category = "all" ->
           << [title |-> Sample_all_title, description |-> Sample_all_description,
               url |-> Sample_all_url, publishedAt |-> toISOString(today),
               source |-> [name |-> Sample_all_source]] >>
      [] category = "ai" ->
           << [title |-> Sample_ai_title, description |-> Sample_ai_description,
               url |-> Sample_ai_url, publishedAt |-> toISOString(today),
               source |-> [name |-> Sample_ai_source]] >>
      [] category = "bci" ->
           << [title |-> Sample_bci_title, description |-> Sample_bci_description,
               url |-> Sample_bci_url, publishedAt |-> toISOString(today),
               source |-> [name |-> Sample_bci_source]] >>

\* isArticleRelevant that takes the keywords as they are written: "AI" is
\* looked for in the lower-cased content with its capitals
isArticleRelevant_KeywordAsIs(article, category) ==
    IF category = "all" THEN TRUE
    ELSE LET keywords == categoryKeywords(category)
             title == toLowerCase(orElse(article.title, <<>>))
             description == toLowerCase(orElse(article.description, <<>>))
             content == title \o <<" ">> \o description
         IN \E k \in 1..Len(keywords) : includes(content, keywords[k])

\* isArticleRelevant(article, category)
isArticleRelevant(article, category) ==
    IF category = "all" THEN TRUE
    ELSE LET keywords == categoryKeywords(category)
             title == toLowerCase(orElse(article.title, <<>>))
             description == toLowerCase(orElse(article.description, <<>>))
             content == title \o <<" ">> \o description
         IN \E k \in 1..Len(keywords) : includes(content, toLowerCase(keywords[k]))

\* What the News API may answer over the queries of one call: up to MaxBatch
\* records of the feed, in any order, repeats included
ApiArticles ==
    UNION { { [k \in 1..n |-> Feed[f[k]]] : f \in [1..n -> 1..Len(Feed)] } :
            n \in 1..MaxBatch }

\* fetchNewsFromAPI without the filter on data.articles
fetchNewsFromAPI_Unfiltered(category, today) ==
    { getSampleNews(category, today) } \cup ApiArticles

\* The values fetchNewsFromAPI(category) may resolve to: the relevant
\* records of the answers, or the sample data (no API key, a 429 answer, or
\* nothing relevant fetched)
fetchNewsFromAPI(category, today) ==
    { getSampleNews(category, today) }
        \cup ( { SelectSeq(data, LAMBDA article : isArticleRelevant(article, category)) :
                 data \in ApiArticles } \ { <<>> } )

(***************************************************************************)
(* The route handlers.  A handler runs from one await to the next without   *)
(* interruption; each step below ends at an await.                          *)
(***************************************************************************)
\* A request as it arrives.  created is the history of the ingestion the
\* request is in: what createArticle was called with and the id it returned;
\* limit is the limit of the request while its page is being counted, and
\* refresh its refresh parameter until the fetch
Request(route, pc, category) ==
    [route |-> route, pc |-> pc, category |-> category, refresh |-> FALSE,
     cats |-> <<>>, newsData |-> <<>>, created |-> <<>>,
     page |-> <<>>, limit |-> 0, res |-> [status |-> 0]]

\* shouldIngest that looks at the refresh parameter alone
shouldIngest_RefreshOnly(refresh, existingArticles) == refresh

\* The condition under which GET /api/news fetches and stores:
\* refresh || existingArticles.length === 0
shouldIngest(refresh, existingArticles) == refresh \/ Len(existingArticles) = 0

\* newsResponse with articles.length for the total, as GET /api/news/search
\* reports it
newsResponse_PageLength(page, totalResults) ==
    [status |-> 200, articles |-> page, totalResults |-> Len(page)]

\* The body of the GET /api/news response
newsResponse(page, totalResults) ==
    [status |-> 200, articles |-> page, totalResults |-> totalResults]

\* The categories POST /api/news/refresh ingests: newsCategories in order,
\* "all" skipped
refreshCategories == <<"ai", "bci">>

\* The category the handler is ingesting
ingestCategory(r) == IF r.route = "refresh" THEN Head(r.cats) ELSE r.category

\* GET /api/news arrives: existingArticles = await storage.getArticles(category, 1)
StartNews(h) ==
    \E category \in newsCategories, refresh \in BOOLEAN :
        /\ req[h] = Idle
        /\ LET existingArticles == getArticles(articles, category, 1, 0)
           IN req' = [req EXCEPT ![h] =
                        [Request("news",
                                 IF shouldIngest(refresh, existingArticles)
                                 THEN "fetch" ELSE "list",
                                 category) EXCEPT !.refresh = refresh]]
        /\ UNCHANGED <<articles, uuidCount, issued, now, ret, evicted, keys, home>>

\* GET /api/news/:id arrives: article = await storage.updateArticleViews(id)
StartView(h) ==
    \E id \in 1..MaxIds :
        /\ req[h] = Idle
        /\ getArticleById(articles, id) # Undefined => sumViews(articles) < MaxViews
        /\ articles' = updateArticleViewsStore(articles, id)
        /\ keys' = updateArticleViewsKeys(keys, articles, id)
        /\ LET article == updateArticleViewsResult(articles, id)
           IN req' = [req EXCEPT ![h] =
                        [route |-> "view", pc |-> "respond", id |-> id,
                         res |-> IF article = Undefined
                                 THEN [status |-> 404]
                                 ELSE [status |-> 200, article |-> article]]]
        /\ UNCHANGED <<uuidCount, issued, now, ret, evicted, home>>

\* POST /api/news/refresh arrives: await storage.clearOldArticles()
StartRefresh(h) ==
    /\ req[h] = Idle
    /\ articles' = clearOldArticlesStore(articles, now)
    /\ keys' = clearOldArticlesKeys(keys, articles, now)
    /\ evicted' = evicted \cup removedBy(articles, articles')
    /\ req' = [req EXCEPT ![h] =
                 [Request("refresh", "fetch", "all") EXCEPT !.cats = refreshCategories]]
    /\ UNCHANGED <<uuidCount, issued, now, ret, home>>

\* newsData = await fetchNewsFromAPI(category)
Fetch(h) ==
    /\ req[h].pc = "fetch"
    /\ \E newsData \in fetchNewsFromAPI(ingestCategory(req[h]), now) :
          req' = [req EXCEPT ![h].newsData = newsData, ![h].pc = "store",
                             ![h].refresh = FALSE]
    /\ UNCHANGED <<articles, uuidCount, issued, now, ret, evicted, keys, home>>

\* One turn of the store loop:
\* await storage.createArticle(mapNewsAPIToSchema(article, category))
Store(h) ==
    /\ req[h].pc = "store"
    /\ LET r == req[h]
           insertArticle == mapNewsAPIToSchema(Head(r.newsData), ingestCategory(r))
           stored == createArticleResult(articles, uuidCount, insertArticle)
           rest == Tail(r.newsData)
       IN /\ existingArticle(articles, insertArticle) = Undefined => uuidCount < MaxIds
          /\ articles' = createArticleStore(articles, uuidCount, insertArticle)
          /\ keys' = createArticleKeys(keys, articles, uuidCount, insertArticle)
          /\ uuidCount' = IF existingArticle(articles, insertArticle) = Undefined
                          THEN uuidCount + 1 ELSE uuidCount
          /\ issued' = issued \cup { articles'[i].id : i \in 1..Len(articles') }
          /\ req' = [req EXCEPT
                ![h].newsData = rest,
                ![h].created = Append(@, [title |-> insertArticle.title,
                                          url |-> insertArticle.url,
                                          id |-> stored.id]),
                ![h].cats = IF rest = <<>> /\ r.route = "refresh" THEN Tail(@) ELSE @,
                ![h].pc = IF rest # <<>> THEN "store"
                          ELSE IF r.route = "news" THEN "dedup"
                          ELSE IF Tail(r.cats) # <<>> THEN "fetch"
                          ELSE "respond",
                ![h].res = IF rest = <<>> /\ r.route = "refresh" /\ Tail(r.cats) = <<>>
                           THEN [status |-> 200] ELSE @]
    /\ UNCHANGED <<now, ret, evicted, home>>

\* await storage.removeDuplicates()
Dedup(h) ==
    /\ req[h].pc = "dedup"
    /\ articles' = removeDuplicatesStore(articles)
    /\ keys' = removeDuplicatesKeys(keys, articles)
    /\ req' = [req EXCEPT ![h].pc = "list", ![h].created = <<>>]
    /\ UNCHANGED <<uuidCount, issued, now, ret, evicted, home>>

\* articles = await storage.getArticles(category, limit, offset)
List(h) ==
    \E limit \in 1..MaxLimit, offset \in 0..MaxOffset :
        /\ req[h].pc = "list"
        /\ req' = [req EXCEPT
              ![h].page = getArticles(articles, req[h].category, limit, offset),
              ![h].limit = limit,
              ![h].pc = "count"]
        /\ UNCHANGED <<articles, uuidCount, issued, now, ret, evicted, keys, home>>

\* totalResults = await storage.getTotalArticles(category)
Count(h) ==
    /\ req[h].pc = "count"
    /\ req' = [req EXCEPT
          ![h].res = newsResponse(req[h].page,
                                  getTotalArticles(articles, req[h].category)),
          ![h].limit = 0,
          ![h].pc = "respond"]
    /\ UNCHANGED <<articles, uuidCount, issued, now, ret, evicted, keys, home>>

\* res.json(...): the response leaves and the handler ends
Respond(h) ==
    /\ req[h].pc = "respond"
    /\ req' = [req EXCEPT ![h] = Idle]
    /\ UNCHANGED <<articles, uuidCount, issued, now, ret, evicted, keys, home>>

RoutesNext ==
    \E h \in Handlers :
        \/ StartNews(h)
        \/ StartRefresh(h)
        \/ Fetch(h)
        \/ Store(h)
        \/ Dedup(h)
        \/ List(h)
        \/ Count(h)
        \/ Respond(h)

\* The server under concurrent GET /api/news and POST /api/news/refresh
\* requests
RoutesSpec == Init /\ [][RoutesNext]_vars

ViewsNext ==
    \E h \in Handlers :
        \/ StartView(h)
        \/ StartRefresh(h)
        \/ Fetch(h)
        \/ Store(h)
        \/ Respond(h)

\* The server under concurrent GET /api/news/:id and POST /api/news/refresh
\* requests
ViewsSpec == Init /\ [][ViewsNext]_vars

(***************************************************************************)
(* GET /api/news/search.                                                    *)
(***************************************************************************)
\* String.prototype.trim, for the blank character
RECURSIVE trimStart(_)
trimStart(s) == IF s # <<>> /\ Head(s) = " " THEN trimStart(Tail(s)) ELSE s

RECURSIVE trimEnd(_)
trimEnd(s) ==
    IF s # <<>> /\ s[Len(s)] = " " THEN trimEnd(SubSeq(s, 1, Len(s) - 1)) ELSE s

trim(s) == trimEnd(trimStart(s))

\* sanitizeInput: domPurify.sanitize with no tag and no attribute allowed
\* takes every tag out and keeps the text between the tags
RECURSIVE sanitizeInput(_)
sanitizeInput(input) ==
    IF input = <<>> THEN <<>>
    ELSE IF Head(input) = "<" /\ \E j \in 2..Len(input) : input[j] = ">"
         THEN LET close == CHOOSE j \in 2..Len(input) :
                              /\ input[j] = ">"
                              /\ \A k \in 2..(j - 1) : input[k] # ">"
              IN sanitizeInput(SubSeq(input, close + 1, Len(input)))
         ELSE <<Head(input)>> \o sanitizeInput(Tail(input))

\* The q parameters clients send: the search terms of Queries as typed, with
\* blanks around one and a tag in another, and one that is blank
RawQueries == { <<" ","n","e","u","r","a","l"," ">>, <<"B","R","A","I","N">>,
                <<"<","b",">","n","a","t","u","r","e">>, <<"a","|","|","b">>,
                <<" "," ">> }

\* The validation chain of q: notEmpty().trim().isLength({ min: 1, max: 200 })
validQuery(rawQuery) == rawQuery # <<>> /\ Len(trim(rawQuery)) \in 1..200

\* searchResponse that reports the limit of the request as the total
searchResponse_Limit(page, category, query, limit, offset) ==
    [status |-> 200, articles |-> page, totalResults |-> limit,
     category |-> category, query |-> query, limit |-> limit, offset |-> offset]

\* The body of the GET /api/news/search response
searchResponse(page, category, query, limit, offset) ==
    [status |-> 200, articles |-> page, totalResults |-> Len(page),
     category |-> category, query |-> query, limit |-> limit, offset |-> offset]

\* GET /api/news/search arrives:
\* articles = await storage.searchArticles(sanitizedQuery, category, limit, offset)
StartSearch(h) ==
    \E rawQuery \in RawQueries, category \in newsCategories,
       limit \in 1..MaxLimit, offset \in 0..MaxOffset :
        /\ req[h] = Idle
        /\ LET sanitizedQuery == sanitizeInput(trim(rawQuery))
               page == searchArticles(articles, sanitizedQuery, category,
                                      limit, offset)
           IN req' = [req EXCEPT ![h] =
                        [route |-> "search", pc |-> "respond",
                         res |-> IF validQuery(rawQuery)
                                 THEN searchResponse(page, category, sanitizedQuery,
                                                     limit, offset)
                                 ELSE [status |-> 400]]]
        /\ articles' = searchArticlesStore(articles, sanitizeInput(trim(rawQuery)),
                                           category, limit, offset)
        /\ keys' = keys
        /\ UNCHANGED <<uuidCount, issued, now, ret, evicted, home>>

SearchNext ==
    \E h \in Handlers :
        \/ StartSearch(h)
        \/ StartRefresh(h)
        \/ Fetch(h)
        \/ Store(h)
        \/ Respond(h)

\* The server under concurrent GET /api/news/search and
\* POST /api/news/refresh requests
SearchSpec == Init /\ [][SearchNext]_vars

(***************************************************************************)
(* Claims about the store (Spec).                                           *)
(***************************************************************************)
\* A step that is a call of the named storage method
Called(op) == ret = NoCall /\ ret'.op = op

\* The stored article with this id, in a store where the id is a key
ArticleOf(store, id) == store[CHOOSE i \in 1..Len(store) : store[i].id = id]

Ids(store) == { store[i].id : i \in 1..Len(store) }

SameKey(a, b) == a.title = b.title /\ a.url = b.url

\* C1: in every reachable state no two stored articles have the same
\* (title, url) pair.
C1_UniqueTitleUrl ==
    \A i, j \in 1..Len(articles) :
        i # j => ~SameKey(articles[i], articles[j])

\* C1 witness: two articles are stored and a create that collided with one
\* of them has just returned.
C1_Witness ==
    /\ ret.op = "createArticle"
    /\ Len(articles) = 2
    /\ ret.val.category # ret.arg.category

\* C2: a createArticle whose (title, url) is that of a stored article
\* returns that stored article, under its id and with all its fields as
\* they were, and leaves the store as it was.
C2_CollidingCreateReturnsStored ==
    [][ ( /\ Called("createArticle")
          /\ \E i \in 1..Len(articles) : SameKey(articles[i], ret'.arg) )
        => /\ articles' = articles
           /\ \E i \in 1..Len(articles) :
                /\ SameKey(articles[i], ret'.arg)
                /\ ret'.val = articles[i] ]_vars

\* C2 witness: a colliding create has returned an article that differs from
\* the incoming record in category, publishedAt and description and that
\* has been viewed.
C2_Witness ==
    /\ ret.op = "createArticle"
    /\ SameKey(ret.val, ret.arg)
    /\ ret.val.category # ret.arg.category
    /\ ret.val.publishedAt # ret.arg.publishedAt
    /\ ret.val.description # ret.arg.description
    /\ ret.val.views > 0

\* C3: a createArticle whose (title, url) matches no stored article adds
\* exactly one article, with views 0 and an id no article was ever stored
\* under, and leaves every other stored article as it was.
C3_FreshCreate ==
    [][ ( /\ Called("createArticle")
          /\ \A i \in 1..Len(articles) : ~SameKey(articles[i], ret'.arg) )
        => /\ Len(articles') = Len(articles) + 1
           /\ SubSeq(articles', 1, Len(articles)) = articles
           /\ LET a == articles'[Len(articles')]
              IN /\ a.views = 0
                 /\ a.id \notin issued
                 /\ SameKey(a, ret'.arg)
                 /\ a.category = ret'.arg.category
                 /\ ret'.val = a ]_vars

\* C3 witness: the article just created is the only one stored and carries
\* the second id: the first id belonged to an article that is gone.
C3_Witness ==
    /\ ret.op = "createArticle"
    /\ Len(articles) = 1
    /\ ret.val = articles[1]
    /\ ret.val.views = 0
    /\ ret.val.id # 1
    /\ issued = {1, ret.val.id}

\* C6: for every id stored before and after a step, views does not go down,
\* and it changes only if the step is updateArticleViews on that id.
C6_ViewsOnlyByUpdate ==
    [][ \A id \in Ids(articles) \cap Ids(articles') :
            /\ ArticleOf(articles', id).views >= ArticleOf(articles, id).views
            /\ ArticleOf(articles', id).views # ArticleOf(articles, id).views
                 => Called("updateArticleViews") /\ ret'.arg = id ]_vars

\* C6 witness: clearOldArticles has run and the store still holds an
\* article with the two views it had collected.
C6_Witness ==
    /\ ret.op = "clearOldArticles"
    /\ \E i \in 1..Len(articles) : articles[i].views = 2

\* C8: updateArticleViews on an id that is not stored returns undefined and
\* leaves the store as it was.
C8_UpdateUnknownId ==
    [][ ( /\ Called("updateArticleViews")
          /\ ret'.arg \notin Ids(articles) )
        => /\ ret'.val = Undefined
           /\ articles' = articles ]_vars

\* C8 witness: updateArticleViews was called on the id of an article that
\* is gone, while another article is stored; it returned undefined.
C8_Witness ==
    /\ ret.op = "updateArticleViews"
    /\ ret.val = Undefined
    /\ ret.arg \in issued
    /\ Len(articles) >= 1

\* The place of stored article i in the listing of a category: how many
\* stored articles of the category are newer, or as new and stored earlier
ListedBefore(i, category, Pass(_)) ==
    Cardinality({ j \in 1..Len(articles) :
        /\ category = "all" \/ articles[j].category = category
        /\ Pass(articles[j])
        /\ \/ getTime(articles[j].publishedAt) > getTime(articles[i].publishedAt)
           \/ /\ getTime(articles[j].publishedAt) = getTime(articles[i].publishedAt)
              /\ j < i })

\* page is the [offset, offset + limit) part of the listing of category,
\* restricted to the articles that Pass
IsPage(page, category, limit, offset, Pass(_)) ==
    LET listed == { i \in 1..Len(articles) :
                      /\ category = "all" \/ articles[i].category = category
                      /\ Pass(articles[i]) }
        rest == Cardinality(listed) - offset
    IN /\ Len(page) = IF rest <= 0 THEN 0 ELSE IF rest < limit THEN rest ELSE limit
       /\ \A k \in 1..Len(page) :
            \E i \in listed :
                /\ ListedBefore(i, category, Pass) = offset + k - 1
                /\ page[k] = articles[i]

\* C9: getArticles(category, limit, offset) returns the elements at
\* positions [offset, offset + limit) of the stored articles of the category
\* (all of them for "all"), newest publishedAt first, equal publishedAt in
\* insertion order; shorter or empty when the listing ends earlier.
C9_GetArticlesPage ==
    ret.op = "getArticles" =>
        IsPage(ret.val, ret.arg.category, ret.arg.limit, ret.arg.offset,
               LAMBDA a : TRUE)

\* C9 witness: a listing of one category returned two articles published at
\* the same instant.
C9_Witness ==
    /\ ret.op = "getArticles"
    /\ ret.arg.category # "all"
    /\ Len(ret.val) = 2
    /\ ret.val[1].publishedAt = ret.val[2].publishedAt

\* q occurs in s as a substring, letter case aside
ContainsIgnoringCase(s, q) ==
    \E p \in 0..(Len(s) - Len(q)) :
        \A k \in 1..Len(q) : LowerChar[s[p + k]] = LowerChar[q[k]]

\* The article matches the query in its title, its description if it has
\* one, or its source name
MatchesQuery(a, q) ==
    \/ ContainsIgnoringCase(a.title, q)
    \/ a.description # Null /\ ContainsIgnoringCase(a.description, q)
    \/ ContainsIgnoringCase(a.source.name, q)

\* C10: searchArticles(query, category, limit, offset) returns the
\* [offset, offset + limit) part of the stored articles of the category whose
\* title, description or source name contains the query, letter case aside,
\* newest first, equal publishedAt in insertion order.
C10_SearchArticlesPage ==
    ret.op = "searchArticles" =>
        IsPage(ret.val, ret.arg.category, ret.arg.limit, ret.arg.offset,
               LAMBDA a : MatchesQuery(a, ret.arg.query))

\* C10 witness: a search matched one stored article in its description only
\* and left the other stored article, of the same category, out.
C10_Witness ==
    /\ ret.op = "searchArticles"
    /\ Len(ret.val) = 1
    /\ Len(articles) = 2
    /\ ret.arg.offset = 0
    /\ articles[1].category = articles[2].category
    /\ ~ContainsIgnoringCase(ret.val[1].title, ret.arg.query)
    /\ ~ContainsIgnoringCase(ret.val[1].source.name, ret.arg.query)

(***************************************************************************)
(* Claims about the route handlers (RoutesSpec, ViewsSpec).                 *)
(***************************************************************************)
\* The createArticle calls of the ingestion handler h is in
Created(h) == IF "created" \in DOMAIN req[h] THEN req[h].created ELSE <<>>

\* A step in which handler h gets an article back from createArticle
StoreStep(h) == req[h].pc = "store" /\ Len(Created(h))' = Len(Created(h)) + 1

\* The call that step made, with the id of the article it got back
Returned(h) == req'[h].created[Len(req'[h].created)]

\* C4: no stored article has the category "all", whatever GET /api/news and
\* POST /api/news/refresh requests were served.
C4_NoWildcardStored ==
    \A i \in 1..Len(articles) : articles[i].category # "all"

\* C5, as stated: when a handler's createArticle call has the (title, url)
\* of a call made earlier by another handler that is still running, it
\* returns the id the earlier call returned, and exactly one stored article
\* has that (title, url).
C5_ConcurrentCreatesSameId ==
    [][ \A h \in Handlers : \A g \in Handlers \ {h} :
            StoreStep(h) =>
                \A k \in 1..Len(Created(g)) :
                    SameKey(Created(g)[k], Returned(h))
                    => /\ Returned(h).id = Created(g)[k].id
                       /\ Cardinality({ i \in 1..Len(articles') :
                              SameKey(articles'[i], Returned(h)) }) = 1 ]_vars

\* C5, amended: the same, provided the article the earlier call returned is
\* still stored when the later call is made.
C5_ConcurrentCreatesSameIdWhileStored ==
    [][ \A h \in Handlers : \A g \in Handlers \ {h} :
            StoreStep(h) =>
                \A k \in 1..Len(Created(g)) :
                    ( /\ SameKey(Created(g)[k], Returned(h))
                      /\ Created(g)[k].id \in Ids(articles) )
                    => /\ Returned(h).id = Created(g)[k].id
                       /\ Cardinality({ i \in 1..Len(articles') :
                              SameKey(articles'[i], Returned(h)) }) = 1 ]_vars

\* C5 witness: two handlers ingesting different categories have both called
\* createArticle with the same (title, url), and both got the same id.
C5_Witness ==
    \E h \in Handlers : \E g \in Handlers \ {h} :
        /\ req[h].route = "news" /\ req[g].route = "news"
        /\ req[h].category # req[g].category
        /\ \E k \in 1..Len(Created(h)), l \in 1..Len(Created(g)) :
              /\ SameKey(Created(h)[k], Created(g)[l])
              /\ Created(h)[k].id = Created(g)[l].id
              /\ Created(h)[k].id \in Ids(articles)

\* The handlers whose GET /api/news/:id call for id is this step
ViewCalls(id) ==
    { h \in Handlers : req[h] = Idle /\ req'[h].route = "view" /\ req'[h].id = id }

\* C7: every step raises the views of an article that stays stored by one
\* for each updateArticleViews call on its id made in the step, and by
\* nothing else, so k calls raise views by exactly k however the handlers
\* interleave; each call answers with the article as stored after it.
C7_ViewsCountCalls ==
    [][ \A id \in Ids(articles) \cap Ids(articles') :
            /\ ArticleOf(articles', id).views
                  = ArticleOf(articles, id).views + Cardinality(ViewCalls(id))
            /\ \A h \in ViewCalls(id) :
                  /\ req'[h].res.status = 200
                  /\ req'[h].res.article = ArticleOf(articles', id)
                  /\ req'[h].res.article.views = ArticleOf(articles, id).views + 1
      ]_vars

\* C7 witness: two GET /api/news/:id requests for the same id are both
\* about to respond, one with views 1 and the other with views 2, and the
\* stored article has views 2.
C7_Witness ==
    \E h \in Handlers : \E g \in Handlers \ {h} :
        /\ req[h].route = "view" /\ req[g].route = "view"
        /\ req[h].id = req[g].id
        /\ req[h].res.status = 200 /\ req[g].res.status = 200
        /\ req[h].res.article.views = 1
        /\ req[g].res.article.views = 2
        /\ ArticleOf(articles, req[h].id).views = 2

(***************************************************************************)
(* Claims about paging, counting and the read-only calls (Spec).            *)
(***************************************************************************)
\* The pages getArticles(category, N, 0), getArticles(category, N, N), ...
\* of a store, up to the first empty one, end to end
RECURSIVE PagesFrom(_, _, _, _)
PagesFrom(store, category, N, offset) ==
    LET page == getArticles(store, category, N, offset)
    IN IF page = <<>> THEN <<>>
       ELSE page \o PagesFrom(store, category, N, offset + N)

Elements(s) == { s[i] : i \in 1..Len(s) }

\* C11: against the store as it stands, for every category and page size N
\* the pages at offsets 0, N, 2N, ... up to the first empty page hold, as a
\* set, what getArticles(category, getTotalArticles(category), 0) returns,
\* and no article is on two pages.
C11_PagesCoverListing ==
    \A category \in newsCategories, N \in 1..MaxLimit :
        LET pages == PagesFrom(articles, category, N, 0)
            whole == getArticles(articles, category,
                                 getTotalArticles(articles, category), 0)
        IN /\ Elements(pages) = Elements(whole)
           /\ Cardinality(Elements(pages)) = Len(pages)

\* C11 witness: getArticles has returned the second page of a category
\* whose articles fill two pages of one.
C11_Witness ==
    /\ ret.op = "getArticles"
    /\ ret.arg.category # "all"
    /\ ret.arg.limit = 1 /\ ret.arg.offset = 1
    /\ Len(ret.val) = 1
    /\ Len(PagesFrom(articles, ret.arg.category, 1, 0)) = 2

C13_TotalCountsCategory ==
    ret.op = "getTotalArticles" =>
        ret.val = IF ret.arg \in {"all", NoCategory}
                  THEN Len(articles)
                  ELSE Cardinality({ i \in 1..Len(articles) :
                                       articles[i].category = ret.arg })

\* C13 witness: getTotalArticles without a category has counted two stored
\* articles of two different categories.
C13_Witness ==
    /\ ret.op = "getTotalArticles"
    /\ ret.arg = NoCategory
    /\ ret.val = 2
    /\ articles[1].category # articles[2].category

(***************************************************************************)
(* Claims about retention and compaction (Spec).                            *)
(***************************************************************************)
\* C14: straight after clearOldArticles no stored article was published
\* before now minus three days, and every article stored before the call
\* that was not published before that cutoff is still stored, with its id,
\* its fields and its views; when it was inserted plays no part.
C14_ClearOldArticlesByPublishedAt ==
    [][ Called("clearOldArticles")
        => /\ \A j \in 1..Len(articles') :
                 getTime(articles'[j].publishedAt) >= now - 3
           /\ \A i \in 1..Len(articles) :
                 getTime(articles[i].publishedAt) >= now - 3
                 => \E j \in 1..Len(articles') : articles'[j] = articles[i] ]_vars

\* C14 witness: clearOldArticles has removed the article inserted last and
\* kept the one inserted first, which was published exactly three days ago
\* and has been viewed.
C14_Witness ==
    /\ ret.op = "clearOldArticles"
    /\ Len(articles) = 1
    /\ articles[1].id = 1
    /\ getTime(articles[1].publishedAt) = now - 3
    /\ articles[1].views > 0
    /\ \E e \in evicted : e.id = 2

\* C15: running clearOldArticles again straight after clearOldArticles, at
\* the same clock, changes nothing, and neither does running
\* removeDuplicates again straight after removeDuplicates.
C15_EvictionAndDedupIdempotent ==
    [][ /\ Called("clearOldArticles")
           => clearOldArticlesStore(articles', now') = articles'
        /\ Called("removeDuplicates")
           => removeDuplicatesStore(articles') = articles' ]_vars

\* C15 witness: removeDuplicates has run on two stored articles and left
\* one: the id of the other is gone without clearOldArticles having
\* removed it.
C15_Witness ==
    /\ ret.op = "removeDuplicates"
    /\ Len(articles) = 1
    /\ issued = {1, 2}
    /\ evicted = {}

\* The stored articles i of store that no earlier one shares (title, url) with
FirstOfKey(store) ==
    { i \in 1..Len(store) : \A j \in 1..(i - 1) : ~SameKey(store[j], store[i]) }

\* sub holds some of the elements of s, in the order s has them
IsSubsequence(sub, s) ==
    \E f \in [1..Len(sub) -> 1..Len(s)] :
        /\ \A k \in 1..Len(sub) : sub[k] = s[f[k]]
        /\ \A k, l \in 1..Len(sub) : k < l => f[k] < f[l]

\* C16: removeDuplicates leaves, of the articles stored before it, exactly
\* the first one in insertion order of each (title, url), each with its id
\* and views, in the order they were stored in; so an article whose
\* (title, url) no other article has is kept.
C16_RemoveDuplicatesKeepsFirstOfKey ==
    [][ Called("removeDuplicates")
        => /\ Elements(articles')
                = { articles[i] : i \in FirstOfKey(articles) }
           /\ Len(articles') = Cardinality(FirstOfKey(articles))
           /\ IsSubsequence(articles', articles) ]_vars

\* C17: an article leaves the store only in a clearOldArticles step;
\* createArticle, updateArticleViews, getArticles, searchArticles,
\* getTotalArticles and removeDuplicates remove nothing.
C17_RemovedOnlyByEviction ==
    [][ \A id \in Ids(articles) \ Ids(articles') :
            Called("clearOldArticles") ]_vars

\* C18: from one state to the next, an article that is stored in both, told
\* by its id or by its (title, url), has the same id and the same title,
\* description, url, publishedAt, source and category; only views may differ.
C18_ContentAndIdImmutable ==
    [][ \A i \in 1..Len(articles), j \in 1..Len(articles') :
            ( \/ articles[i].id = articles'[j].id
              \/ SameKey(articles[i], articles'[j]) )
            => [articles'[j] EXCEPT !.views = 0] = [articles[i] EXCEPT !.views = 0]
      ]_vars

\* C18 witness: the article stored under the second id has been viewed
\* twice, the one stored under the first id is gone, and a createArticle
\* with the same (title, url) and another category has just returned it.
C18_Witness ==
    /\ ret.op = "createArticle"
    /\ ret.val.id = 2
    /\ ret.val.views = 2
    /\ ret.val.category # ret.arg.category
    /\ articles = <<ret.val>>
    /\ issued = {1, 2}

\* The ids of what clearOldArticles has removed
EvictedIds == { e.id : e \in evicted }

\* C19: once clearOldArticles has removed an article, updateArticleViews on
\* its id returns undefined and changes nothing, no getArticles or
\* searchArticles result holds it, getTotalArticles counts only articles
\* that were not removed, and a createArticle with its (title, url), stored
\* by no article now, stores an article with views 0 under an id never used
\* before.
C19_EvictionLeavesNoTrace ==
    [][ /\ ( Called("updateArticleViews") /\ ret'.arg \in EvictedIds )
           => /\ ret'.val = Undefined
              /\ articles' = articles
        /\ ( Called("getArticles") \/ Called("searchArticles") )
           => \A k \in 1..Len(ret'.val) : ret'.val[k].id \notin EvictedIds
        /\ Called("getTotalArticles")
           => ret'.val = Cardinality({ i \in 1..Len(articles) :
                            /\ articles[i].id \notin EvictedIds
                            /\ \/ ret'.arg \in {"all", NoCategory}
                               \/ articles[i].category = ret'.arg })
        /\ ( /\ Called("createArticle")
             /\ \E e \in evicted : SameKey(e, ret'.arg)
             /\ \A i \in 1..Len(articles) : ~SameKey(articles[i], ret'.arg) )
           => /\ ret'.val.views = 0
              /\ ret'.val.id \notin issued
              /\ ret'.val.id \notin EvictedIds
              /\ articles' = Append(articles, ret'.val) ]_vars

\* C19 witness: createArticle has stored, under a new id and with views 0,
\* an article with the (title, url) of one that clearOldArticles removed.
C19_Witness ==
    /\ ret.op = "createArticle"
    /\ ret.val.views = 0
    /\ ret.val \in Elements(articles)
    /\ \E e \in evicted : SameKey(e, ret.val) /\ e.id # ret.val.id

(***************************************************************************)
(* isArticleRelevant on its own: the classifier applied to raw records.     *)
(***************************************************************************)
T_Paid == <<"P","a","i","d">>
T_BRAIN == <<"B","R","A","I","N">>
T_Neu == <<"N","e","u">>
D_ral == <<"r","a","l">>
D_Implant == <<"I","m","p","l","a","n","t">>

\* Titles and descriptions of raw records: absent, empty, with a keyword in
\* capitals, with "ai" inside a word, and with a keyword cut in two between
\* title and description
RawTitles == { Null, <<>>, T_Neural, T_Chip, T_Paid, T_BRAIN, T_Neu }
RawDescriptions == { Null, <<>>, D_Brain, D_Model, D_ral, D_Implant }

RawRecords == [title : RawTitles, description : RawDescriptions]

\* isArticleRelevant(article, category)
IsArticleRelevant ==
    \E article \in RawRecords, category \in newsCategories :
        /\ ret = NoCall
        /\ ret' = [op |-> "isArticleRelevant",
                   arg |-> [article |-> article, category |-> category],
                   val |-> isArticleRelevant(article, category)]
        /\ UNCHANGED <<articles, uuidCount, issued, now, req, evicted, keys, home>>

RelevanceNext ==
    \/ IsArticleRelevant
    \/ Resume

\* The classifier called on every raw record and category
RelevanceSpec == Init /\ [][RelevanceNext]_vars

\* A title or description as text: nothing when it is absent
TextOf(x) == IF x = Null THEN <<>> ELSE x

\* C20: isArticleRelevant(record, category) is true for every record when
\* the category is "all"; for another category it is true exactly when some
\* keyword of the category occurs, letter case aside, in the title or in the
\* description of the record, an absent title or description being empty.
C20_RelevantIffKeyword ==
    ret.op = "isArticleRelevant" =>
        ret.val =
            ( \/ ret.arg.category = "all"
              \/ \E k \in 1..Len(categoryKeywords(ret.arg.category)) :
                    LET keyword == categoryKeywords(ret.arg.category)[k]
                    IN \/ ContainsIgnoringCase(TextOf(ret.arg.article.title), keyword)
                       \/ ContainsIgnoringCase(TextOf(ret.arg.article.description),
                                               keyword) )

\* C20 witness: a record without description whose title holds no keyword
\* of "ai" but "AI", in small letters inside a word, was found relevant.
C20_Witness ==
    /\ ret.op = "isArticleRelevant"
    /\ ret.arg.category = "ai"
    /\ ret.arg.article.title = T_Paid
    /\ ret.arg.article.description = Null
    /\ ret.val = TRUE

(***************************************************************************)
(* The sample lists of getSampleNews in full: title and description of     *)
(* every record, which is all that isArticleRelevant reads.                 *)
(***************************************************************************)
sampleArticles_all ==
    <<
       [title |->
          <<"B","r","e","a","k","t","h","r","o","u","g","h"," ","T","e","c",
            "h","n","o","l","o","g","y"," ","R","e","v","o","l","u","t","i",
            "o","n","i","z","e","s"," ","S","c","i","e","n","t","i","f","i",
            "c"," ","R","e","s","e","a","r","c","h"," ","M","e","t","h","o",
            "d","s">>,
        description |->
          <<"S","c","i","e","n","t","i","s","t","s"," ","d","e","v","e","l",
            "o","p"," ","i","n","n","o","v","a","t","i","v","e"," ","r","e",
            "s","e","a","r","c","h"," ","t","e","c","h","n","i","q","u","e",
            "s"," ","t","h","a","t"," ","a","c","c","e","l","e","r","a","t",
            "e"," ","d","i","s","c","o","v","e","r","y"," ","i","n"," ","m",
            "u","l","t","i","p","l","e"," ","f","i","e","l","d","s"," ","u",
            "s","i","n","g"," ","a","d","v","a","n","c","e","d"," ","t","e",
            "c","h","n","o","l","o","g","y"," ","p","l","a","t","f","o","r",
            "m","s",".">>],
       [title |->
          <<"I","n","n","o","v","a","t","i","o","n"," ","i","n"," ","S","c",
            "i","e","n","c","e"," ","C","o","m","p","u","t","i","n","g"," ",
            "T","r","a","n","s","f","o","r","m","s"," ","D","a","t","a"," ",
            "A","n","a","l","y","s","i","s">>,
        description |->
          <<"N","e","w"," ","c","o","m","p","u","t","a","t","i","o","n","a",
            "l"," ","r","e","s","e","a","r","c","h"," ","t","o","o","l","s",
            " ","e","n","a","b","l","e"," ","f","a","s","t","e","r"," ","p",
            "r","o","c","e","s","s","i","n","g"," ","o","f"," ","c","o","m",
            "p","l","e","x"," ","s","c","i","e","n","t","i","f","i","c"," ",
            "d","a","t","a","s","e","t","s"," ","a","c","r","o","s","s"," ",
            "m","u","l","t","i","p","l","e"," ","r","e","s","e","a","r","c",
            "h"," ","d","o","m","a","i","n","s",".">>],
       [title |->
          <<"A","d","v","a","n","c","e","d"," ","T","e","c","h","n","o","l",
            "o","g","y"," ","P","l","a","t","f","o","r","m","s"," ","E","n",
            "a","b","l","e"," ","C","o","l","l","a","b","o","r","a","t","i",
            "v","e"," ","R","e","s","e","a","r","c","h"," ","N","e","t","w",
            "o","r","k","s">>,
        description |->
          <<"C","u","t","t","i","n","g","-","e","d","g","e"," ","s","c","i",
            "e","n","c","e"," ","a","n","d"," ","t","e","c","h","n","o","l",
            "o","g","y"," ","i","n","f","r","a","s","t","r","u","c","t","u",
            "r","e"," ","c","o","n","n","e","c","t","s"," ","r","e","s","e",
            "a","r","c","h","e","r","s"," ","g","l","o","b","a","l","l","y",
            " ","f","o","r"," ","b","r","e","a","k","t","h","r","o","u","g",
            "h"," ","i","n","n","o","v","a","t","i","o","n"," ","p","r","o",
            "j","e","c","t","s",".">>],
       [title |->
          <<"R","e","s","e","a","r","c","h"," ","I","n","n","o","v","a","t",
            "i","o","n"," ","A","c","c","e","l","e","r","a","t","e","s"," ",
            "S","c","i","e","n","t","i","f","i","c"," ","D","i","s","c","o",
            "v","e","r","y"," ","T","i","m","e","l","i","n","e">>,
        description |->
          <<"N","e","w"," ","t","e","c","h","n","o","l","o","g","y","-","d",
            "r","i","v","e","n"," ","r","e","s","e","a","r","c","h"," ","m",
            "e","t","h","o","d","o","l","o","g","i","e","s"," ","r","e","d",
            "u","c","e"," ","t","i","m","e"," ","f","r","o","m"," ","h","y",
            "p","o","t","h","e","s","i","s"," ","t","o"," ","b","r","e","a",
            "k","t","h","r","o","u","g","h"," ","i","n"," ","s","c","i","e",
            "n","t","i","f","i","c"," ","s","t","u","d","i","e","s",".">>],
       [title |->
          <<"T","e","c","h","n","o","l","o","g","y"," ","I","n","t","e","g",
            "r","a","t","i","o","n"," ","T","r","a","n","s","f","o","r","m",
            "s"," ","M","o","d","e","r","n"," ","S","c","i","e","n","c","e",
            " ","L","a","b","o","r","a","t","o","r","i","e","s">>,
        description |->
          <<"A","d","v","a","n","c","e","d"," ","r","e","s","e","a","r","c",
            "h"," ","t","e","c","h","n","o","l","o","g","y"," ","c","r","e",
            "a","t","e","s"," ","m","o","r","e"," ","e","f","f","i","c","i",
            "e","n","t"," ","a","n","d"," ","c","o","l","l","a","b","o","r",
            "a","t","i","v","e"," ","s","c","i","e","n","t","i","f","i","c",
            " ","w","o","r","k"," ","e","n","v","i","r","o","n","m","e","n",
            "t","s"," ","w","o","r","l","d","w","i","d","e",".">>]
    >>

sampleArticles_ai ==
    <<
       [title |->
          <<"N","e","w"," ","A","I"," ","A","l","g","o","r","i","t","h","m",
            " ","S","o","l","v","e","s"," ","C","o","m","p","l","e","x"," ",
            "M","a","c","h","i","n","e"," ","L","e","a","r","n","i","n","g",
            " ","O","p","t","i","m","i","z","a","t","i","o","n"," ","P","r",
            "o","b","l","e","m","s">>,
        description |->
          <<"B","r","e","a","k","t","h","r","o","u","g","h"," ","a","r","t",
            "i","f","i","c","i","a","l"," ","i","n","t","e","l","l","i","g",
            "e","n","c","e"," ","r","e","s","e","a","r","c","h"," ","s","h",
            "o","w","s"," ","n","e","u","r","a","l"," ","n","e","t","w","o",
            "r","k","s"," ","c","a","n"," ","n","o","w"," ","s","o","l","v",
            "e"," ","p","r","e","v","i","o","u","s","l","y"," ","i","n","t",
            "r","a","c","t","a","b","l","e"," ","o","p","t","i","m","i","z",
            "a","t","i","o","n"," ","p","r","o","b","l","e","m","s"," ","i",
            "n"," ","m","a","c","h","i","n","e"," ","l","e","a","r","n","i",
            "n","g",".">>],
       [title |->
          <<"D","e","e","p"," ","L","e","a","r","n","i","n","g"," ","M","o",
            "d","e","l"," ","A","c","h","i","e","v","e","s"," ","9","9","%",
            " ","A","c","c","u","r","a","c","y"," ","i","n"," ","M","e","d",
            "i","c","a","l"," ","D","i","a","g","n","o","s","i","s">>,
        description |->
          <<"R","e","s","e","a","r","c","h","e","r","s"," ","d","e","v","e",
            "l","o","p"," ","a","d","v","a","n","c","e","d"," ","n","e","u",
            "r","a","l"," ","n","e","t","w","o","r","k"," ","t","h","a","t",
            " ","u","s","e","s"," ","a","r","t","i","f","i","c","i","a","l",
            " ","i","n","t","e","l","l","i","g","e","n","c","e"," ","t","o",
            " ","d","i","a","g","n","o","s","e"," ","d","i","s","e","a","s",
            "e","s"," ","w","i","t","h"," ","u","n","p","r","e","c","e","d",
            "e","n","t","e","d"," ","a","c","c","u","r","a","c","y",".">>],
       [title |->
          <<"R","e","v","o","l","u","t","i","o","n","a","r","y"," ","N","e",
            "u","r","a","l"," ","N","e","t","w","o","r","k"," ","A","r","c",
            "h","i","t","e","c","t","u","r","e"," ","T","r","a","n","s","f",
            "o","r","m","s"," ","A","I"," ","P","e","r","f","o","r","m","a",
            "n","c","e">>,
        description |->
          <<"S","c","i","e","n","t","i","s","t","s"," ","c","r","e","a","t",
            "e"," ","b","r","e","a","k","t","h","r","o","u","g","h"," ","a",
            "r","t","i","f","i","c","i","a","l"," ","i","n","t","e","l","l",
            "i","g","e","n","c","e"," ","s","y","s","t","e","m"," ","t","h",
            "a","t"," ","u","s","e","s"," ","a","d","v","a","n","c","e","d",
            " ","m","a","c","h","i","n","e"," ","l","e","a","r","n","i","n",
            "g"," ","t","o"," ","a","c","h","i","e","v","e"," ","h","u","m",
            "a","n","-","l","e","v","e","l"," ","r","e","a","s","o","n","i",
            "n","g",".">>],
       [title |->
          <<"M","a","c","h","i","n","e"," ","L","e","a","r","n","i","n","g",
            " ","A","l","g","o","r","i","t","h","m"," ","B","r","e","a","k",
            "t","h","r","o","u","g","h"," ","E","n","a","b","l","e","s"," ",
            "R","e","a","l","-","T","i","m","e"," ","I","n","t","e","l","l",
            "i","g","e","n","c","e">>,
        description |->
          <<"A","d","v","a","n","c","e","d"," ","A","I"," ","m","o","d","e",
            "l"," ","p","r","o","c","e","s","s","e","s"," ","c","o","m","p",
            "l","e","x"," ","n","e","u","r","a","l"," ","n","e","t","w","o",
            "r","k","s"," ","f","a","s","t","e","r"," ","t","h","a","n"," ",
            "e","v","e","r",","," ","o","p","e","n","i","n","g"," ","n","e",
            "w"," ","p","o","s","s","i","b","i","l","i","t","i","e","s"," ",
            "f","o","r"," ","i","n","t","e","l","l","i","g","e","n","t"," ",
            "s","y","s","t","e","m","s",".">>],
       [title |->
          <<"A","r","t","i","f","i","c","i","a","l"," ","I","n","t","e","l",
            "l","i","g","e","n","c","e"," ","B","r","e","a","k","t","h","r",
            "o","u","g","h",":"," ","N","e","u","r","a","l"," ","N","e","t",
            "w","o","r","k","s"," ","L","e","a","r","n"," ","L","i","k","e",
            " ","H","u","m","a","n"," ","B","r","a","i","n">>,
        description |->
          <<"R","e","v","o","l","u","t","i","o","n","a","r","y"," ","m","a",
            "c","h","i","n","e"," ","l","e","a","r","n","i","n","g"," ","r",
            "e","s","e","a","r","c","h"," ","c","r","e","a","t","e","s"," ",
            "A","I"," ","t","h","a","t"," ","m","i","m","i","c","s"," ","h",
            "u","m","a","n"," ","i","n","t","e","l","l","i","g","e","n","c",
            "e"," ","u","s","i","n","g"," ","a","d","v","a","n","c","e","d",
            " ","n","e","u","r","a","l"," ","p","r","o","c","e","s","s","i",
            "n","g"," ","a","l","g","o","r","i","t","h","m","s",".">>]
    >>

sampleArticles_bci ==
    <<
       [title |->
          <<"B","r","a","i","n","-","C","o","m","p","u","t","e","r"," ","I",
            "n","t","e","r","f","a","c","e"," ","E","n","a","b","l","e","s",
            " ","P","a","r","a","l","y","z","e","d"," ","P","a","t","i","e",
            "n","t","s"," ","t","o"," ","C","o","n","t","r","o","l"," ","N",
            "e","u","r","a","l"," ","P","r","o","s","t","h","e","t","i","c",
            "s">>,
        description |->
          <<"R","e","v","o","l","u","t","i","o","n","a","r","y"," ","n","e",
            "u","r","o","t","e","c","h","n","o","l","o","g","y"," ","r","e",
            "s","e","a","r","c","h"," ","a","l","l","o","w","s"," ","b","r",
            "a","i","n"," ","i","m","p","l","a","n","t"," ","u","s","e","r",
            "s"," ","t","o"," ","c","o","n","t","r","o","l"," ","p","r","o",
            "s","t","h","e","t","i","c"," ","d","e","v","i","c","e","s"," ",
            "u","s","i","n","g"," ","n","e","u","r","a","l"," ","s","i","g",
            "n","a","l","s"," ","f","r","o","m"," ","b","r","a","i","n"," ",
            "i","n","t","e","r","f","a","c","e"," ","s","y","s","t","e","m",
            "s",".">>],
       [title |->
          <<"A","d","v","a","n","c","e","d"," ","N","e","u","r","a","l"," ",
            "I","n","t","e","r","f","a","c","e"," ","T","e","c","h","n","o",
            "l","o","g","y"," ","R","e","s","t","o","r","e","s"," ","C","o",
            "m","m","u","n","i","c","a","t","i","o","n"," ","f","o","r"," ",
            "L","o","c","k","e","d","-","i","n"," ","P","a","t","i","e","n",
            "t","s">>,
        description |->
          <<"B","r","e","a","k","t","h","r","o","u","g","h"," ","b","r","a",
            "i","n","-","c","o","m","p","u","t","e","r"," ","i","n","t","e",
            "r","f","a","c","e"," ","u","s","e","s"," ","n","e","u","r","a",
            "l"," ","s","i","g","n","a","l"," ","p","r","o","c","e","s","s",
            "i","n","g"," ","t","o"," ","e","n","a","b","l","e"," ","c","o",
            "m","m","u","n","i","c","a","t","i","o","n"," ","t","h","r","o",
            "u","g","h"," ","b","r","a","i","n"," ","i","m","p","l","a","n",
            "t"," ","t","e","c","h","n","o","l","o","g","y",".">>],
       [title |->
          <<"N","e","u","r","a","l"," ","P","r","o","s","t","h","e","t","i",
            "c","s"," ","B","r","e","a","k","t","h","r","o","u","g","h",":",
            " ","B","r","a","i","n"," ","I","m","p","l","a","n","t","s"," ",
            "E","n","a","b","l","e"," ","D","i","r","e","c","t"," ","D","e",
            "v","i","c","e"," ","C","o","n","t","r","o","l">>,
        description |->
          <<"S","c","i","e","n","t","i","s","t","s"," ","d","e","v","e","l",
            "o","p"," ","a","d","v","a","n","c","e","d"," ","b","r","a","i",
            "n","-","c","o","m","p","u","t","e","r"," ","i","n","t","e","r",
            "f","a","c","e"," ","t","h","a","t"," ","a","l","l","o","w","s",
            " ","p","a","r","a","l","y","z","e","d"," ","p","a","t","i","e",
            "n","t","s"," ","t","o"," ","c","o","n","t","r","o","l"," ","e",
            "x","t","e","r","n","a","l"," ","d","e","v","i","c","e","s"," ",
            "u","s","i","n","g"," ","o","n","l","y"," ","n","e","u","r","a",
            "l"," ","s","i","g","n","a","l","s",".">>],
       [title |->
          <<"N","e","u","r","o","t","e","c","h","n","o","l","o","g","y"," ",
            "I","n","n","o","v","a","t","i","o","n",":"," ","B","r","a","i",
            "n"," ","I","n","t","e","r","f","a","c","e"," ","R","e","s","t",
            "o","r","e","s"," ","L","o","s","t"," ","M","o","t","o","r"," ",
            "F","u","n","c","t","i","o","n","s">>,
        description |->
          <<"R","e","v","o","l","u","t","i","o","n","a","r","y"," ","b","r",
            "a","i","n","-","c","o","m","p","u","t","e","r"," ","i","n","t",
            "e","r","f","a","c","e"," ","r","e","s","e","a","r","c","h"," ",
            "e","n","a","b","l","e","s"," ","p","a","r","a","l","y","z","e",
            "d"," ","i","n","d","i","v","i","d","u","a","l","s"," ","t","o",
            " ","r","e","g","a","i","n"," ","m","o","t","o","r"," ","c","o",
            "n","t","r","o","l"," ","t","h","r","o","u","g","h"," ","n","e",
            "u","r","a","l"," ","p","r","o","s","t","h","e","t","i","c"," ",
            "t","e","c","h","n","o","l","o","g","y",".">>],
       [title |->
          <<"B","r","a","i","n"," ","I","m","p","l","a","n","t"," ","T","e",
            "c","h","n","o","l","o","g","y"," ","A","d","v","a","n","c","e",
            "s"," ","E","n","a","b","l","e"," ","T","h","o","u","g","h","t",
            "-","C","o","n","t","r","o","l","l","e","d"," ","C","o","m","p",
            "u","t","i","n","g">>,
        description |->
          <<"C","u","t","t","i","n","g","-","e","d","g","e"," ","n","e","u",
            "r","o","t","e","c","h","n","o","l","o","g","y"," ","a","l","l",
            "o","w","s"," ","u","s","e","r","s"," ","t","o"," ","c","o","n",
            "t","r","o","l"," ","c","o","m","p","u","t","e","r","s"," ","a",
            "n","d"," ","d","e","v","i","c","e","s"," ","d","i","r","e","c",
            "t","l","y"," ","t","h","r","o","u","g","h"," ","b","r","a","i",
            "n"," ","s","i","g","n","a","l","s"," ","v","i","a"," ","n","e",
            "u","r","a","l"," ","i","n","t","e","r","f","a","c","e"," ","i",
            "m","p","l","a","n","t","s",".">>]
    >>

sampleArticles(category) ==
    CASE category = "all" -> sampleArticles_all
      [] category = "ai" -> sampleArticles_ai
      [] category = "bci" -> sampleArticles_bci

(***************************************************************************)
(* Claims about ingestion (RoutesSpec).                                     *)
(***************************************************************************)
\* Every record of every sample list passes isArticleRelevant for the
\* category of its list
SampleListsRelevant ==
    \A category \in newsCategories :
        \A k \in 1..Len(sampleArticles(category)) :
            isArticleRelevant(sampleArticles(category)[k], category)

\* C21: every record a handler is about to hand to createArticle passes
\* isArticleRelevant for the category being ingested, whether
\* fetchNewsFromAPI answered with filtered API records or with sample data;
\* and every record of every sample list passes it for the list's category.
C21_IngestedRecordsRelevant ==
    /\ \A h \in Handlers :
          req[h].pc = "store"
          => \A k \in 1..Len(req[h].newsData) :
                isArticleRelevant(req[h].newsData[k], ingestCategory(req[h]))
    /\ SampleListsRelevant

\* C21 witness: a handler ingesting "bci" holds a record of the API answer,
\* and another ingesting "bci" holds the sample record.
C21_Witness ==
    \E h \in Handlers : \E g \in Handlers \ {h} :
        /\ req[h].pc = "store" /\ req[g].pc = "store"
        /\ ingestCategory(req[h]) = "bci" /\ ingestCategory(req[g]) = "bci"
        /\ req[h].newsData = <<Feed[1]>>
        /\ req[g].newsData = getSampleNews("bci", now)

\* The store invariants: (title, url) unique, ids unique, views not negative
StoreInvariants ==
    /\ \A i, j \in 1..Len(articles) :
          i # j => ~SameKey(articles[i], articles[j]) /\ articles[i].id # articles[j].id
    /\ \A i \in 1..Len(articles) : articles[i].views >= 0

\* How many stored articles have the (title, url) of e
StoredWithKey(e) ==
    Cardinality({ i \in 1..Len(articles) : SameKey(articles[i], e) })

\* C22, as stated: wherever an ingestion stands in its batch, the store
\* satisfies the store invariants, and every record the ingestion has handed
\* to createArticle so far is stored exactly once.
C22_PrefixStoredOnce ==
    /\ StoreInvariants
    /\ \A h \in Handlers : \A k \in 1..Len(Created(h)) :
          StoredWithKey(Created(h)[k]) = 1

\* C22, amended: the same, but a record of the prefix is stored exactly once
\* only as long as the article createArticle returned for it is still
\* stored; it is never stored twice.
C22_PrefixStoredOnceWhileKept ==
    /\ StoreInvariants
    /\ \A h \in Handlers : \A k \in 1..Len(Created(h)) :
          /\ StoredWithKey(Created(h)[k]) <= 1
          /\ Created(h)[k].id \in Ids(articles)
             => /\ StoredWithKey(Created(h)[k]) = 1
                /\ SameKey(ArticleOf(articles, Created(h)[k].id), Created(h)[k])

\* C22 witness: a POST /api/news/refresh has stored the records of its
\* first category and not yet those of its second, a GET /api/news is in
\* the middle of its own batch, and what the refresh stored is still there.
C22_Witness ==
    \E h \in Handlers : \E g \in Handlers \ {h} :
        /\ req[h].route = "refresh" /\ req[h].pc = "store"
        /\ Len(req[h].cats) = 1
        /\ Len(Created(h)) = 1
        /\ Created(h)[1].id \in Ids(articles)
        /\ req[g].route = "news" /\ req[g].pc = "store"

\* The keys of the Map
Keys == { keys[i] : i \in 1..Len(keys) }

\* C23: every entry of the Map has the id of its article as its key, no key
\* occurs twice, and getArticleById returns an article for exactly the ids
\* that are keys, namely the article with that id.
C23_IndexConsistent ==
    /\ Len(keys) = Len(articles)
    /\ \A i \in 1..Len(keys) : keys[i] = articles[i].id
    /\ \A i, j \in 1..Len(keys) : i # j => keys[i] # keys[j]
    /\ \A id \in 1..(MaxIds + 1) :
          /\ mapGet(keys, articles, id) # Undefined <=> id \in Keys
          /\ mapGet(keys, articles, id) = getArticleById(articles, id)
    /\ ret.op = "getArticleById"
       => /\ ret.val # Undefined <=> ret.arg \in Keys
          /\ ret.val # Undefined => ret.val.id = ret.arg

\* C23 witness: removeDuplicates has rebuilt a Map whose one entry has a key
\* that is not its position, an earlier entry having been evicted, and
\* getArticleById finds the article under that key
C23_Witness ==
    /\ ret.op = "removeDuplicates"
    /\ keys = <<2>>
    /\ evicted # {}
    /\ mapGet(keys, articles, 2) # Undefined
    /\ mapGet(keys, articles, 1) = Undefined

\* The handler takes the step that counts and forms the GET /api/news response
CountStep(h) == req[h].pc = "count" /\ req'[h].pc = "respond"

\* The stored articles a listing of the category counts
InCategory(store, category) ==
    { i \in 1..Len(store) : category = "all" \/ store[i].category = category }

\* C24, as stated: the response of GET /api/news is formed when the
\* ingestion of the request is over, its totalResults is the number of stored
\* articles of the category at that moment whatever limit and offset are, and
\* its page is no longer than limit and no longer than totalResults.
C24_NewsResponseTotal ==
    [][ \A h \in Handlers :
            CountStep(h)
            => /\ req[h].newsData = <<>> /\ Created(h) = <<>>
               /\ req'[h].res.totalResults
                    = Cardinality(InCategory(articles, req[h].category))
               /\ req'[h].res.articles = req[h].page
               /\ Len(req'[h].res.articles) <= req[h].limit
               /\ Len(req'[h].res.articles) <= req'[h].res.totalResults ]_vars

\* C24, amended: the page is no longer than totalResults provided every
\* article of the page is still stored when the total is taken.
C24_NewsResponseTotalWhileStored ==
    [][ \A h \in Handlers :
            CountStep(h)
            => /\ req[h].newsData = <<>> /\ Created(h) = <<>>
               /\ req'[h].res.totalResults
                    = Cardinality(InCategory(articles, req[h].category))
               /\ req'[h].res.articles = req[h].page
               /\ Len(req'[h].res.articles) <= req[h].limit
               /\ (\A k \in 1..Len(req[h].page) : req[h].page[k].id \in Ids(articles))
                  => Len(req'[h].res.articles) <= req'[h].res.totalResults ]_vars

\* C24 witness: a GET /api/news response with a page of one article, cut by
\* the limit, out of a total of two
C24_Witness ==
    \E h \in Handlers :
        /\ req[h].route = "news" /\ req[h].pc = "respond"
        /\ Len(req[h].res.articles) = 1
        /\ req[h].res.totalResults = 2

\* A GET /api/news request arrives at the handler
NewsArrives(h) == req[h] = Idle /\ req'[h].route = "news"

\* The handler takes a step of the GET /api/news request it serves
NewsStep(h) == req[h].route = "news" /\ req'[h] # req[h]

\* C25: a GET /api/news request goes on to fetch exactly if refresh is true
\* or no article of its category is stored when it arrives, and with
\* category "all" and no refresh only if the store is empty; a request that
\* fetches then stores every record and runs removeDuplicates before it
\* lists, and a request that does not fetch goes straight to the listing; no
\* step from the listing on changes the store.
C25_IngestIffRefreshOrEmpty ==
    [][ \A h \in Handlers :
          /\ NewsArrives(h)
             => /\ req'[h].pc \in {"fetch", "list"}
                /\ req'[h].pc = "fetch"
                   <=> ( req'[h].refresh
                         \/ InCategory(articles, req'[h].category) = {} )
                /\ ( req'[h].pc = "fetch" /\ ~req'[h].refresh
                     /\ req'[h].category = "all" )
                   => articles = <<>>
                /\ articles' = articles
          /\ NewsStep(h)
             => /\ req[h].pc = "fetch"
                   => req'[h].pc = "store" /\ req'[h].newsData # <<>>
                      /\ articles' = articles
                /\ req[h].pc = "store"
                   => /\ req'[h].pc = (IF Tail(req[h].newsData) = <<>>
                                       THEN "dedup" ELSE "store")
                      /\ \E i \in 1..Len(articles') :
                            SameKey(articles'[i],
                                    mapNewsAPIToSchema(Head(req[h].newsData),
                                                       req[h].category))
                /\ req[h].pc = "dedup"
                   => req'[h].pc = "list"
                      /\ articles' = removeDuplicatesStore(articles)
                /\ req[h].pc \in {"list", "count", "respond"}
                   => articles' = articles /\ req'[h].pc # "fetch" ]_vars

\* C25 witness: with articles stored, one GET /api/news for "all" without
\* refresh has gone straight to the listing while another, with refresh, is
\* about to fetch
C25_Witness ==
    \E h \in Handlers : \E g \in Handlers \ {h} :
        /\ articles # <<>>
        /\ req[h].route = "news" /\ req[h].pc = "fetch" /\ req[h].refresh
        /\ req[g].route = "news" /\ req[g].pc = "list" /\ req[g].category = "all"
        /\ ~req[g].refresh

\* The article was published before the cutoff clearOldArticles would use now
OutOfWindow(article) == getTime(article.publishedAt) < threeDaysAgo(now)

\* A POST /api/news/refresh request arrives at some handler
RefreshArrives == \E h \in Handlers : req[h] = Idle /\ req'[h].route = "refresh"

\* C26: createArticle stores a record that is already older than the window;
\* a stored article older than the window is listed by getArticles and found
\* by getArticleById; it leaves the store only in the step in which a
\* POST /api/news/refresh arrives, and that step, which comes before the
\* refresh ingests anything, leaves no such article behind.
C26_RetentionOnlyAtRefresh ==
    [][ /\ \A h \in Handlers :
              ( StoreStep(h) /\ OutOfWindow(Head(req[h].newsData)) )
              => \E i \in 1..Len(articles') :
                    /\ articles'[i].id = Returned(h).id
                    /\ SameKey(articles'[i], Returned(h))
        /\ \A i \in 1..Len(articles') :
              OutOfWindow(articles'[i])
              => /\ mapGet(keys', articles', articles'[i].id) = articles'[i]
                 /\ \E k \in 1..Len(articles') :
                       getArticles(articles', articles'[i].category,
                                   Len(articles'), 0)[k] = articles'[i]
        /\ \A i \in 1..Len(articles) :
              ( OutOfWindow(articles[i]) /\ articles[i].id \notin Ids(articles') )
              => RefreshArrives
        /\ RefreshArrives
           => /\ \A i \in 1..Len(articles') : ~OutOfWindow(articles'[i])
              /\ \A h \in Handlers :
                    req'[h].route = "refresh" /\ req[h] = Idle
                    => req'[h].pc = "fetch" /\ Created(h)' = <<>> ]_vars

\* A GET /api/news/search request arrives at the handler and is answered
SearchArrives(h) == req[h] = Idle /\ req'[h].route = "search"

\* The stored articles of the category that match the query
Matching(store, query, category) ==
    { i \in InCategory(store, category) : MatchesQuery(store[i], query) }

\* C27: the GET /api/news/search response carries the page searchArticles
\* returns for the sanitized query, and its totalResults is the length of
\* that page, which is at most limit and at most the number of stored
\* articles that match.
C27_SearchTotalIsPageLength ==
    [][ \A h \in Handlers :
            ( SearchArrives(h) /\ req'[h].res.status = 200 )
            => LET res == req'[h].res
               IN /\ res.articles = searchArticles(articles, res.query, res.category,
                                                   res.limit, res.offset)
                  /\ res.totalResults = Len(res.articles)
                  /\ res.totalResults <= res.limit
                  /\ res.totalResults
                       <= Cardinality(Matching(articles, res.query, res.category))
                  /\ \A k \in 1..Len(res.articles) :
                        \E i \in Matching(articles, res.query, res.category) :
                            articles[i] = res.articles[k]
                  /\ articles' = articles ]_vars

\* C27 witness: two responses to the same query and category on the store
\* as it is now, one with limit 1 and one with limit 2, report the totals 1
\* and 2, and two stored articles match
C27_Witness ==
    \E h \in Handlers : \E g \in Handlers \ {h} :
        /\ req[h].route = "search" /\ req[g].route = "search"
        /\ req[h].res.status = 200 /\ req[g].res.status = 200
        /\ req[h].res.query = req[g].res.query
        /\ req[h].res.category = req[g].res.category
        /\ req[h].res.offset = 0 /\ req[g].res.offset = 0
        /\ req[h].res.limit = 1 /\ req[g].res.limit = 2
        /\ req[h].res.totalResults = 1 /\ req[g].res.totalResults = 2
        /\ req[g].res.articles
             = searchArticles(articles, req[g].res.query, req[g].res.category, 2, 0)
        /\ req[h].res.articles
             = searchArticles(articles, req[h].res.query, req[h].res.category, 1, 0)
        /\ Cardinality(Matching(articles, req[h].res.query, req[h].res.category)) = 2

(***************************************************************************)
(* The client: the Home component of home.tsx, the server seen through the  *)
(* pages it answers with.  Every handler and every effect runs to its end;  *)
(* between them the store changes as the requests of any client change it.  *)
(***************************************************************************)
\* The articles the server answers a page request with: the search route
\* when searchMode && query, the news route otherwise, limit = PageSize
serverPage(store, category, searchMode, query, offset) ==
    IF searchMode /\ query # <<>>
    THEN searchArticles(store, sanitizeInput(trim(query)), category, PageSize, offset)
    ELSE getArticles(store, category, PageSize, offset)

\* The query key of the current render
queryKey(h) == <<h.activeCategory, h.searchQuery>>

\* newsData of the current render
newsData(h) == h.cache[queryKey(h)]

\* articles.filter((article, index, self) =>
\*     index === self.findIndex(a => a.id === article.id))
uniqueArticles(as) ==
    LET first == { i \in 1..Len(as) : \A j \in 1..(i - 1) : as[j].id # as[i].id }
        RECURSIVE build(_)
        build(i) ==
            IF i > Len(as) THEN <<>>
            ELSE IF i \in first THEN <<as[i]>> \o build(i + 1)
                 ELSE build(i + 1)
    IN build(1)

\* appendNew without the filter on the ids the list already has
appendNew_NoFilter(prev, dataArticles) == prev \o dataArticles

\* The updater of setAllArticles in onSuccess: prev and the articles of the
\* response whose id prev does not have
appendNew(prev, dataArticles) ==
    prev \o SelectSeq(dataArticles, LAMBDA article : article.id \notin Ids(prev))

\* The effect on [activeCategory, isSearchMode, searchQuery]
resetEffect(h) ==
    [h EXCEPT !.currentOffset = 0, !.allArticles = <<>>, !.hasMoreArticles = TRUE]

\* The effect on [newsData]
dataEffect(h) ==
    IF newsData(h).loaded
    THEN [h EXCEPT !.allArticles = uniqueArticles(newsData(h).articles),
                   !.currentOffset = PageSize,
                   !.hasMoreArticles = (Len(newsData(h).articles) = PageSize)]
    ELSE h

\* The render after a handler changed category or query: the reset effect,
\* then the data effect, as the data under another key is another object
afterKeyChange(h) == dataEffect(resetEffect(h))

\* handleCategoryChange(category)
HandleCategoryChange ==
    \E category \in newsCategories :
        LET h == [home EXCEPT !.activeCategory = category,
                              !.isSearchMode = FALSE,
                              !.searchQuery = <<>>]
        IN /\ queryKey(h) # queryKey(home)
           /\ home' = afterKeyChange(h)
           /\ UNCHANGED <<articles, uuidCount, issued, now, ret, req, evicted, keys>>

\* handleSearch(query)
HandleSearch ==
    \E query \in ClientQueries :
        LET h == [home EXCEPT !.searchQuery = query,
                              !.isSearchMode = (Len(trim(query)) > 0)]
        IN /\ queryKey(h) # queryKey(home)
           /\ home' = afterKeyChange(h)
           /\ UNCHANGED <<articles, uuidCount, issued, now, ret, req, evicted, keys>>

\* queryFn resolves for the key of the current render (the first fetch, the
\* refetch() of handleRefresh, or a refetch of stale data).  A search
\* response equal to the cached one keeps the cached object, so that no
\* effect runs; a news response differs in lastUpdated.
QueryData ==
    LET data == [loaded |-> TRUE,
                 articles |-> serverPage(articles, home.activeCategory,
                                         home.isSearchMode, home.searchQuery, 0)]
    IN /\ home.isSearchMode => data # newsData(home)
       /\ home' = dataEffect([home EXCEPT !.cache[queryKey(home)] = data])
       /\ UNCHANGED <<articles, uuidCount, issued, now, ret, req, evicted, keys>>

\* handleLoadMore, from the button that is rendered while articles are shown
HandleLoadMore ==
    /\ newsData(home).loaded /\ Len(home.allArticles) > 0
    /\ home.hasMoreArticles /\ home.loadMoreMutation.status = "idle"
    /\ home' = [home EXCEPT !.loadMoreMutation =
                    [status |-> "pending",
                     offset |-> home.currentOffset,
                     category |-> home.activeCategory,
                     searchMode |-> home.isSearchMode,
                     query |-> home.searchQuery,
                     data |-> <<>>]]
    /\ UNCHANGED <<articles, uuidCount, issued, now, ret, req, evicted, keys>>

\* mutationFn: the server answers the load-more request
LoadMoreAnswer ==
    /\ home.loadMoreMutation.status = "pending"
    /\ LET m == home.loadMoreMutation
       IN home' = [home EXCEPT
              !.loadMoreMutation.status = "success",
              !.loadMoreMutation.data =
                  serverPage(articles, m.category, m.searchMode, m.query, m.offset)]
    /\ UNCHANGED <<articles, uuidCount, issued, now, ret, req, evicted, keys>>

\* mutationFn: fetch rejects or the response is not ok
LoadMoreFail ==
    /\ home.loadMoreMutation.status = "pending"
    /\ home' = [home EXCEPT !.loadMoreMutation.status = "error"]
    /\ UNCHANGED <<articles, uuidCount, issued, now, ret, req, evicted, keys>>

\* loadMoreMutation.onSuccess(data)
OnSuccess ==
    /\ home.loadMoreMutation.status = "success"
    /\ LET data == home.loadMoreMutation.data
       IN home' = IF Len(data) = 0
                  THEN [home EXCEPT !.hasMoreArticles = FALSE,
                                    !.loadMoreMutation = NoMutation]
                  ELSE [home EXCEPT
                          !.allArticles = appendNew(@, data),
                          !.currentOffset = @ + PageSize,
                          !.hasMoreArticles = (Len(data) = PageSize),
                          !.loadMoreMutation = NoMutation]
    /\ UNCHANGED <<articles, uuidCount, issued, now, ret, req, evicted, keys>>

\* loadMoreMutation.onError: a toast, no state is set
OnError ==
    /\ home.loadMoreMutation.status = "error"
    /\ home' = [home EXCEPT !.loadMoreMutation = NoMutation]
    /\ UNCHANGED <<articles, uuidCount, issued, now, ret, req, evicted, keys>>

\* The records the requests of this and of other clients store
ClientInserts ==
    { mapNewsAPIToSchema(Feed[1], "ai"), mapNewsAPIToSchema(Feed[2], "ai"),
      mapNewsAPIToSchema(Feed[4], "bci") }

\* A route handler stores a record: storage.createArticle
ServerCreateArticle ==
    \E insertArticle \in ClientInserts :
        /\ existingArticle(articles, insertArticle) = Undefined
        /\ uuidCount < MaxIds
        /\ articles' = createArticleStore(articles, uuidCount, insertArticle)
        /\ keys' = createArticleKeys(keys, articles, uuidCount, insertArticle)
        /\ uuidCount' = uuidCount + 1
        /\ issued' = issued \cup { articles'[i].id : i \in 1..Len(articles') }
        /\ UNCHANGED <<now, ret, req, evicted, home>>

\* POST /api/news/refresh evicts: storage.clearOldArticles
ServerClearOldArticles ==
    /\ articles' = clearOldArticlesStore(articles, now)
    /\ keys' = clearOldArticlesKeys(keys, articles, now)
    /\ articles' # articles
    /\ evicted' = evicted \cup removedBy(articles, articles')
    /\ UNCHANGED <<uuidCount, issued, now, ret, req, home>>

ClientNext ==
    \/ HandleCategoryChange
    \/ HandleSearch
    \/ QueryData
    \/ HandleLoadMore
    \/ LoadMoreAnswer
    \/ LoadMoreFail
    \/ OnSuccess
    \/ OnError
    \/ ServerCreateArticle
    \/ ServerClearOldArticles

\* One client against the server
ClientSpec == Init /\ [][ClientNext]_vars

\* The ids of the list are all different
UniqueIds(as) == \A i, j \in 1..Len(as) : i # j => as[i].id # as[j].id

\* C28: allArticles never has two entries with the same id; onSuccess with
\* an empty response sets hasMoreArticles to false and leaves allArticles and
\* currentOffset as they are.
C28_ListIdsUnique ==
    [][ /\ UniqueIds(home.allArticles) /\ UniqueIds(home'.allArticles)
        /\ ( home.loadMoreMutation.status = "success"
             /\ home.loadMoreMutation.data = <<>>
             /\ home'.loadMoreMutation # home.loadMoreMutation )
           => /\ home'.hasMoreArticles = FALSE
              /\ home'.allArticles = home.allArticles
              /\ home'.currentOffset = home.currentOffset
              /\ home'.loadMoreMutation = NoMutation ]_vars

\* C28 witness: two load-more responses were taken in after an initial
\* load, one of them made of articles the list already had, and an empty
\* response has now ended the list
C28_Witness ==
    /\ home.currentOffset = 2 * PageSize
    /\ Len(home.allArticles) = 1
    /\ Len(articles) = 2
    /\ home.activeCategory = "all"
    /\ ~home.hasMoreArticles
    /\ home.loadMoreMutation = NoMutation

\* The article is one the active category, search mode and query select
BelongsToActive(h, article) ==
    /\ h.activeCategory = "all" \/ article.category = h.activeCategory
    /\ h.isSearchMode => MatchesQuery(article, sanitizeInput(trim(h.searchQuery)))

\* The load-more response at hand was requested under another category,
\* search mode or query than the active one
StaleResponse(h) ==
    /\ h.loadMoreMutation.status = "success"
    /\ \/ h.loadMoreMutation.category # h.activeCategory
       \/ h.loadMoreMutation.searchMode # h.isSearchMode
       \/ h.loadMoreMutation.query # h.searchQuery

\* C29: every article of allArticles is one the active category, search
\* mode and query select; a change of category or search leaves
\* currentOffset 0, allArticles empty and hasMoreArticles true, or the first
\* page held for the new key if there is one; a load-more response
\* requested before such a change and taken in after it leaves allArticles
\* and currentOffset as they are.
C29_ListOfActiveQuery ==
    [][ /\ \A k \in 1..Len(home'.allArticles) :
              BelongsToActive(home', home'.allArticles[k])
        /\ queryKey(home') # queryKey(home)
           => IF newsData(home').loaded
              THEN /\ home'.allArticles = uniqueArticles(newsData(home').articles)
                   /\ home'.currentOffset = PageSize
              ELSE /\ home'.allArticles = <<>>
                   /\ home'.currentOffset = 0
                   /\ home'.hasMoreArticles
        /\ ( StaleResponse(home) /\ home'.loadMoreMutation = NoMutation )
           => /\ home'.allArticles = home.allArticles
              /\ home'.currentOffset = home.currentOffset ]_vars

====
